---- MODULE Spec2Model ----
(***************************************************************************)
(* Model of the Git object layer of justbuild                              *)
(* (src/buildtool/file_system/git_repo.cpp): the tree engine (CreateTree,  *)
(* CreateShallowTree, ReadTree, ReadTreeData over the in-memory ODB        *)
(* backend), the repository operations of a real or fake handle, and the   *)
(* keep-tag retry loop.                                                    *)
(*                                                                         *)
(* Object ids are natural numbers: the ids of blobs and subtrees that a    *)
(* listing refers to are the small numbers of RawIds, and the SHA-1 of a   *)
(* serialised tree is modelled by TreeHash, a collision-free numbering of  *)
(* byte strings.  Serialised tree bytes are sequences of records           *)
(* [mode, name, id], one per "mode SP name NUL id" record of Git's format. *)
(* Names are sequences of character codes, so that Git's sort order is     *)
(* computed and not assumed.                                               *)
(***************************************************************************)
EXTENDS Integers, Sequences, FiniteSets, TLC

\* ------------------------------------------------------------------ bounds

\* largest number of entries of a listing handed to CreateTree
MaxEntries == 2
\* largest number of records of a tree object read with ReadTree
MaxTreeRecords == 2
\* number of different blob contents (and work tree contents)
MaxContents == 2
\* calls of KeepTag each process makes
MaxCalls == 2
\* attempts of a call that finds the ref locked (the value is set in a header
\* that is not among the sources read)
kGitLockNumTries == 3
\* number of symlink ids a batch of the symlink check draws from
MaxSymlinks == 3
\* GitRepo objects a caller holds at a time, and opens it makes
MaxHandles == 2
MaxOpens == 2
\* calls of BlobReader::Next made after the ids are used up
MaxExtraCalls == 2
\* artifacts and file descriptors handed to one call of CommonRetrieveToFds
MaxArtifacts == 2
\* trees of the build root handed to CommonUploadTreeNative
MaxTreeNodes == 3

\* ------------------------------------------------------------ value domains

\* ids of the objects tree entries refer to
RawIds == {1, 2}

\* entry names: "a", "a.b", "a0" ("/" is 47, "." is 46, "0" is 48)
AllNames == << <<97>>, <<97, 46, 98>>, <<97, 48>> >>
Names == {AllNames[i] : i \in 1..Len(AllNames)}

\* enum ObjectType
ObjectTypes == {"File", "Executable", "Symlink", "Tree"}

\* git_filemode_t, written as the octal text Git stores
GIT_FILEMODE_BLOB == "100644"
GIT_FILEMODE_BLOB_EXECUTABLE == "100755"
GIT_FILEMODE_LINK == "120000"
GIT_FILEMODE_TREE == "40000"
GIT_FILEMODE_COMMIT == "160000"
GIT_FILEMODE_UNREADABLE == "0"
AllModes == <<GIT_FILEMODE_BLOB, GIT_FILEMODE_BLOB_EXECUTABLE, GIT_FILEMODE_LINK,
              GIT_FILEMODE_TREE, GIT_FILEMODE_COMMIT>>
Modes == {AllModes[i] : i \in 1..Len(AllModes)}

IsTreeObject(t) == t = "Tree"
IsSymlinkObject(t) == t = "Symlink"

IndexOf(seq, x) == CHOOSE i \in 1..Len(seq) : seq[i] = x

MinOf(S) == CHOOSE x \in S : \A y \in S : x <= y

\* all orderings of a finite set
Perms(S) ==
    {s \in [1..Cardinality(S) -> S] :
        \A i, j \in 1..Cardinality(S) : i # j => s[i] # s[j]}

\* ----------------------------------------------------- mode <-> object type

\* symlinks counted among the non-special modes
kNonSpecialGitFileModes_WithLink ==
    {GIT_FILEMODE_BLOB, GIT_FILEMODE_BLOB_EXECUTABLE, GIT_FILEMODE_TREE, GIT_FILEMODE_LINK}

kNonSpecialGitFileModes ==
    {GIT_FILEMODE_BLOB, GIT_FILEMODE_BLOB_EXECUTABLE, GIT_FILEMODE_TREE}

GitFileModeIsNonSpecial(mode) == mode \in kNonSpecialGitFileModes

\* std::optional<ObjectType>: has = FALSE is std::nullopt
GitFileModeToObjectType(mode) ==
    CASE mode = GIT_FILEMODE_BLOB -> [has |-> TRUE, type |-> "File"]
      [] mode = GIT_FILEMODE_BLOB_EXECUTABLE -> [has |-> TRUE, type |-> "Executable"]
      [] mode = GIT_FILEMODE_TREE -> [has |-> TRUE, type |-> "Tree"]
      [] mode = GIT_FILEMODE_LINK -> [has |-> TRUE, type |-> "Symlink"]
      [] OTHER -> [has |-> FALSE, type |-> "File"]

ObjectTypeToGitFileMode_ExecAsBlob(type) ==
    CASE type = "File" -> GIT_FILEMODE_BLOB
      [] type = "Executable" -> GIT_FILEMODE_BLOB
      [] type = "Tree" -> GIT_FILEMODE_TREE
      [] type = "Symlink" -> GIT_FILEMODE_LINK
      [] OTHER -> GIT_FILEMODE_UNREADABLE

ObjectTypeToGitFileMode(type) ==
    CASE type = "File" -> GIT_FILEMODE_BLOB
      [] type = "Executable" -> GIT_FILEMODE_BLOB_EXECUTABLE
      [] type = "Tree" -> GIT_FILEMODE_TREE
      [] type = "Symlink" -> GIT_FILEMODE_LINK
      [] OTHER -> GIT_FILEMODE_UNREADABLE

\* ------------------------------------------------------------------ listings

\* A listing (tree_entries_t, an unordered_map raw_id -> vector<TreeEntry>) is
\* a sequence of groups [id, nodes] with pairwise different ids; the order of
\* the sequence is the map's iteration order.
Triples(L) ==
    UNION {{[id |-> L[i].id, name |-> L[i].nodes[j].name, type |-> L[i].nodes[j].type] :
               j \in 1..Len(L[i].nodes)} : i \in 1..Len(L)}

IdsOf(E) == {e.id : e \in E}

NodesOf(E, id) == {[name |-> e.name, type |-> e.type] : e \in {f \in E : f.id = id}}

\* every listing that holds exactly the entries E
ListingsOf(E) ==
    LET ids == IdsOf(E)
        orders == UNION {Perms(NodesOf(E, i)) : i \in ids}
        inner == {g \in [ids -> orders] : \A i \in ids : g[i] \in Perms(NodesOf(E, i))}
    IN  {[k \in 1..Len(p) |-> [id |-> p[k], nodes |-> g[p[k]]]] : p \in Perms(ids), g \in inner}

\* for a given raw id, either all entries are trees or none of them
ValidateEntries(L) ==
    \A i \in 1..Len(L) :
        \/ \A j \in 1..Len(L[i].nodes) : IsTreeObject(L[i].nodes[j].type)
        \/ \A j \in 1..Len(L[i].nodes) : ~IsTreeObject(L[i].nodes[j].type)

\* (*entries)[raw_id].emplace_back(name, type)
EmplaceBack(L, id, name, type) ==
    IF \E i \in 1..Len(L) : L[i].id = id
    THEN [i \in 1..Len(L) |->
            IF L[i].id = id
            THEN [id |-> id, nodes |-> Append(L[i].nodes, [name |-> name, type |-> type])]
            ELSE L[i]]
    ELSE Append(L, [id |-> id, nodes |-> <<[name |-> name, type |-> type]>>])

\* ------------------------------------------------- Git's tree serialisation

\* Git's order of tree entries (git_fs_path_cmp): bytewise on the names, a
\* tree's name compared as if it ended in "/"
PathCmp(n1, isdir1, n2, isdir2) ==
    LET len == IF Len(n1) < Len(n2) THEN Len(n1) ELSE Len(n2)
        diff == {i \in 1..len : n1[i] # n2[i]}
        c1 == IF Len(n1) > len THEN n1[len + 1] ELSE IF isdir1 THEN 47 ELSE 0
        c2 == IF Len(n2) > len THEN n2[len + 1] ELSE IF isdir2 THEN 47 ELSE 0
    IN  IF diff # {} THEN n1[MinOf(diff)] - n2[MinOf(diff)] ELSE c1 - c2

EntryBefore(e, f) ==
    PathCmp(e.name, e.mode = GIT_FILEMODE_TREE, f.name, f.mode = GIT_FILEMODE_TREE) < 0

\* the entries of a tree builder (one per name) in Git's order
RECURSIVE SortEntries(_)
SortEntries(S) ==
    IF S = {} THEN <<>>
    ELSE LET first == CHOOSE e \in S : \A f \in S \ {e} : EntryBefore(e, f)
         IN  <<first>> \o SortEntries(S \ {first})

\* the object id of a serialised tree: a collision-free numbering of the byte
\* strings, standing for SHA-1; tree ids are larger than every id of RawIds
EntryCode(e) ==
    ((IndexOf(AllModes, e.mode) - 1) * Len(AllNames) + (IndexOf(AllNames, e.name) - 1))
        * Cardinality(RawIds) + e.id

HashBase == Len(AllModes) * Len(AllNames) * Cardinality(RawIds) + 1

RECURSIVE HashDigits(_)
HashDigits(bytes) ==
    IF bytes = <<>> THEN 0 ELSE EntryCode(Head(bytes)) + HashBase * HashDigits(Tail(bytes))

TreeHash(bytes) == Cardinality(RawIds) + 1 + HashDigits(bytes)

\* ------------------------------------------------- in-memory ODB backend

\* struct InMemoryODBBackend: entries is a pointer to a listing (hasEntries =
\* FALSE is nullptr), trees maps a raw id to serialised tree bytes and is held
\* as a set of [id, data] with at most one element per id
NewInMemoryODBBackend(hasEntries, entries) ==
    [hasEntries |-> hasEntries, entries |-> entries, trees |-> {}]

TreesContains(trees, id) == \E t \in trees : t.id = id

TreesFind(trees, id) == CHOOSE t \in trees : t.id = id

\* unordered_map::emplace: an existing key keeps its value
TreesEmplace(trees, id, data) ==
    IF TreesContains(trees, id) THEN trees ELSE trees \cup {[id |-> id, data |-> data]}

EntriesContains(L, id) == \E i \in 1..Len(L) : L[i].id = id

EntriesFind(L, id) == L[CHOOSE i \in 1..Len(L) : L[i].id = id]

backend_read_header_AlwaysBlob(b, id) ==
    IF TreesContains(b.trees, id)
    THEN [rc |-> "GIT_OK", type |-> "GIT_OBJECT_TREE", len |-> Len(TreesFind(b.trees, id).data)]
    ELSE IF b.hasEntries /\ EntriesContains(b.entries, id)
              /\ EntriesFind(b.entries, id).nodes # <<>>
         THEN [rc |-> "GIT_OK", type |-> "GIT_OBJECT_BLOB", len |-> 0]
         ELSE [rc |-> "GIT_ENOTFOUND", type |-> "GIT_OBJECT_INVALID", len |-> 0]

backend_read_header(b, id) ==
    IF TreesContains(b.trees, id)
    THEN [rc |-> "GIT_OK", type |-> "GIT_OBJECT_TREE", len |-> Len(TreesFind(b.trees, id).data)]
    ELSE IF b.hasEntries /\ EntriesContains(b.entries, id)
              /\ EntriesFind(b.entries, id).nodes # <<>>
         THEN [rc |-> "GIT_OK",
               type |-> IF IsTreeObject(Head(EntriesFind(b.entries, id).nodes).type)
                        THEN "GIT_OBJECT_TREE" ELSE "GIT_OBJECT_BLOB",
               len |-> 0]
         ELSE [rc |-> "GIT_ENOTFOUND", type |-> "GIT_OBJECT_INVALID", len |-> 0]

backend_read(b, id) ==
    IF TreesContains(b.trees, id)
    THEN [rc |-> "GIT_OK", type |-> "GIT_OBJECT_TREE", data |-> TreesFind(b.trees, id).data]
    ELSE [rc |-> "GIT_ENOTFOUND", type |-> "GIT_OBJECT_INVALID", data |-> <<>>]

\* an exists that only looks at the stored trees
backend_exists_TreesOnly(b, id) == TreesContains(b.trees, id)

backend_exists(b, id) ==
    (b.hasEntries /\ EntriesContains(b.entries, id)) \/ TreesContains(b.trees, id)

\* a write that stores blobs as well
backend_write_AnyKind(b, id, data, type) ==
    IF type \in {"GIT_OBJECT_BLOB", "GIT_OBJECT_TREE"}
    THEN [rc |-> "GIT_OK", b |-> [b EXCEPT !.trees = TreesEmplace(b.trees, id, data)]]
    ELSE [rc |-> "GIT_ERROR", b |-> b]

\* GitTypeToObjectType accepts blobs and trees only; only trees are stored
backend_write(b, id, data, type) ==
    IF type \in {"GIT_OBJECT_BLOB", "GIT_OBJECT_TREE"} /\ type = "GIT_OBJECT_TREE"
    THEN [rc |-> "GIT_OK", b |-> [b EXCEPT !.trees = TreesEmplace(b.trees, id, data)]]
    ELSE [rc |-> "GIT_ERROR", b |-> b]

\* ------------------------------------------------------- object databases

\* The ODB of a handle: the in-memory backend alone (kind "mem"), or the
\* object store of an on-disk repository (kind "disk"), which holds for each
\* id of RawIds a blob, a tree or nothing, and the trees written to it.
MemOdb(b) == [kind |-> "mem", b |-> b, types |-> [i \in RawIds |-> "absent"]]

DiskOdb(types) ==
    [kind |-> "disk", b |-> NewInMemoryODBBackend(FALSE, <<>>), types |-> types]

\* git_odb_read_header through the ODB's backend
OdbReadHeader(odb, id) ==
    IF odb.kind = "mem" THEN backend_read_header(odb.b, id)
    ELSE IF TreesContains(odb.b.trees, id)
         THEN [rc |-> "GIT_OK", type |-> "GIT_OBJECT_TREE", len |-> 0]
         ELSE IF id \in RawIds /\ odb.types[id] # "absent"
              THEN [rc |-> "GIT_OK", type |-> odb.types[id], len |-> 0]
              ELSE [rc |-> "GIT_ENOTFOUND", type |-> "GIT_OBJECT_INVALID", len |-> 0]

\* git_odb_write: the id is the hash of the data; the backend stores it
OdbWrite(odb, data, type) ==
    LET id == TreeHash(data)
        w == IF odb.kind = "mem" THEN backend_write(odb.b, id, data, type)
             ELSE [rc |-> "GIT_OK",
                   b |-> [odb.b EXCEPT !.trees = TreesEmplace(odb.b.trees, id, data)]]
    IN  [rc |-> w.rc, id |-> id, odb |-> [odb EXCEPT !.b = w.b]]

\* --------------------------------------------------------- tree builder

\* libgit2 maps a file mode to the object type its target must have
otype_from_mode(mode) ==
    CASE mode = GIT_FILEMODE_TREE -> "GIT_OBJECT_TREE"
      [] mode = GIT_FILEMODE_COMMIT -> "GIT_OBJECT_COMMIT"
      [] OTHER -> "GIT_OBJECT_BLOB"

\* git_treebuilder_insert: the target must be in the ODB with the type the
\* mode asks for; an entry of the same name is replaced
git_treebuilder_insert(bld, odb, name, id, mode) ==
    LET hdr == OdbReadHeader(odb, id)
    IN  IF hdr.rc = "GIT_OK" /\ hdr.type = otype_from_mode(mode)
        THEN [rc |-> "GIT_OK",
              bld |-> {e \in bld : e.name # name}
                         \cup {[mode |-> mode, name |-> name, id |-> id]}]
        ELSE [rc |-> "GIT_ERROR", bld |-> bld]

\* git_treebuilder_write: serialise the entries in Git's order and store them
git_treebuilder_write(bld, odb) == OdbWrite(odb, SortEntries(bld), "GIT_OBJECT_TREE")

Flatten_FirstOfGroup(L) ==
    [i \in 1..Len(L) |->
        [id |-> L[i].id, name |-> Head(L[i].nodes).name, type |-> Head(L[i].nodes).type]]

\* the (raw_id, entry) pairs in the order the two loops of CreateTree visit them
RECURSIVE Flatten(_)
Flatten(L) ==
    IF L = <<>> THEN <<>>
    ELSE [j \in 1..Len(Head(L).nodes) |->
             [id |-> Head(L).id, name |-> Head(L).nodes[j].name,
              type |-> Head(L).nodes[j].type]] \o Flatten(Tail(L))

\* the insertion loop of CreateTree: rc is GIT_ERROR as soon as one insert fails
RECURSIVE InsertAll(_, _, _)
InsertAll(bld, odb, items) ==
    IF items = <<>> THEN [rc |-> "GIT_OK", bld |-> bld]
    ELSE LET r == git_treebuilder_insert(bld, odb, Head(items).name, Head(items).id,
                                         ObjectTypeToGitFileMode(Head(items).type))
         IN  IF r.rc # "GIT_OK" THEN r ELSE InsertAll(r.bld, odb, Tail(items))

NoTree == [ok |-> FALSE, aborted |-> FALSE, id |-> 0, bytes |-> <<>>]

\* GitRepo::CreateTree on a handle whose ODB is odb; audit is a build with
\* the audit contracts compiled in (no NDEBUG).  The result carries the ODB
\* after the call.
CreateTree(odb, L, audit) ==
    IF audit /\ ~ValidateEntries(L)
    THEN [res |-> [NoTree EXCEPT !.aborted = TRUE], odb |-> odb]
    ELSE LET ins == InsertAll({}, odb, Flatten(L))
         IN  IF ins.rc # "GIT_OK" THEN [res |-> NoTree, odb |-> odb]
             ELSE LET w == git_treebuilder_write(ins.bld, odb)
                  IN  IF w.rc # "GIT_OK" THEN [res |-> NoTree, odb |-> odb]
                      ELSE [res |-> [ok |-> TRUE, aborted |-> FALSE, id |-> w.id,
                                     bytes |-> <<>>],
                            odb |-> w.odb]

\* GitRepo::CreateShallowTree: (raw id, serialised bytes) of the tree of L
CreateShallowTree(L, audit) ==
    LET b == NewInMemoryODBBackend(TRUE, L)
        r == CreateTree(MemOdb(b), L, audit)
    IN  IF r.res.ok /\ TreesContains(r.odb.b.trees, r.res.id)
        THEN [r.res EXCEPT !.bytes = TreesFind(r.odb.b.trees, r.res.id).data]
        ELSE [NoTree EXCEPT !.aborted = r.res.aborted]

\* ------------------------------------------------------------ tree reading

\* git_tree_lookup: the object must be a tree the ODB can read
git_tree_lookup(odb, id) ==
    LET r == backend_read(odb.b, id)
    IN  IF r.rc = "GIT_OK" /\ r.type = "GIT_OBJECT_TREE"
        THEN [rc |-> "GIT_OK", tree |-> r.data]
        ELSE [rc |-> "GIT_ENOTFOUND", tree |-> <<>>]

\* git_tree_walk with flat_tree_walker: -1 of the callback ends the walk
\* with an error
RECURSIVE flat_tree_walker(_, _)
flat_tree_walker(tree, entries) ==
    IF tree = <<>> THEN [rc |-> 0, entries |-> entries]
    ELSE LET type == GitFileModeToObjectType(Head(tree).mode)
         IN  IF type.has
             THEN flat_tree_walker(Tail(tree),
                      EmplaceBack(entries, Head(tree).id, Head(tree).name, type.type))
             ELSE [rc |-> -1, entries |-> entries]

\* git_tree_walk with flat_tree_walker_ignore_special
RECURSIVE flat_tree_walker_ignore_special(_, _)
flat_tree_walker_ignore_special(tree, entries) ==
    IF tree = <<>> THEN [rc |-> 0, entries |-> entries]
    ELSE IF ~GitFileModeIsNonSpecial(Head(tree).mode)
         THEN flat_tree_walker_ignore_special(Tail(tree), entries)
         ELSE LET type == GitFileModeToObjectType(Head(tree).mode)
              IN  IF type.has
                  THEN flat_tree_walker_ignore_special(Tail(tree),
                           EmplaceBack(entries, Head(tree).id, Head(tree).name, type.type))
                  ELSE [rc |-> -1, entries |-> entries]

\* one digest per symlink node: the break after the first is missing
RECURSIVE GatherSymlinks_PerNode(_)
GatherSymlinks_PerNode(L) ==
    IF L = <<>> THEN <<>>
    ELSE [j \in 1..Cardinality({k \in 1..Len(Head(L).nodes) :
                                   IsSymlinkObject(Head(L).nodes[k].type)}) |-> Head(L).id]
         \o GatherSymlinks_PerNode(Tail(L))

\* the symlink candidates ReadTree gathers: one digest per raw id that has a
\* symlink node
RECURSIVE GatherSymlinks(_)
GatherSymlinks(L) ==
    IF L = <<>> THEN <<>>
    ELSE (IF \E j \in 1..Len(Head(L).nodes) : IsSymlinkObject(Head(L).nodes[j].type)
          THEN <<Head(L).id>> ELSE <<>>) \o GatherSymlinks(Tail(L))

\* the caller's check_symlinks: true iff no digest of the batch is one of
\* upward, the ids of the symlinks whose target is upwards
check_symlinks(upward, batch) == \A k \in 1..Len(batch) : batch[k] \notin upward

NoListing == [ok |-> FALSE, aborted |-> FALSE, entries |-> <<>>, batches |-> <<>>]

\* GitRepo::ReadTree; batches are the arguments check_symlinks was called with
ReadTree(odb, id, upward, ignore_special, audit) ==
    LET look == git_tree_lookup(odb, id)
        walk == IF ignore_special THEN flat_tree_walker_ignore_special(look.tree, <<>>)
                ELSE flat_tree_walker(look.tree, <<>>)
        symlinks == GatherSymlinks(walk.entries)
    IN  IF look.rc # "GIT_OK" THEN NoListing
        ELSE IF walk.rc # 0 THEN NoListing
        ELSE IF ~ignore_special /\ ~check_symlinks(upward, symlinks)
             THEN [NoListing EXCEPT !.batches = <<symlinks>>]
        ELSE IF audit /\ ~ValidateEntries(walk.entries)
             THEN [NoListing EXCEPT !.aborted = TRUE,
                                    !.batches = IF ignore_special THEN <<>> ELSE <<symlinks>>]
        ELSE [ok |-> TRUE, aborted |-> FALSE, entries |-> walk.entries,
              batches |-> IF ignore_special THEN <<>> ELSE <<symlinks>>]

\* GitRepo::ReadTreeData: the bytes are put under id into a private in-memory
\* ODB and read back with ReadTree (ignore_special is false)
ReadTreeData(data, id, upward, audit) ==
    LET b == [NewInMemoryODBBackend(FALSE, <<>>) EXCEPT !.trees = TreesEmplace({}, id, data)]
    IN  ReadTree(MemOdb(b), id, upward, FALSE, audit)

\* ================================================================== state

VARIABLES
    entrySet,    \* tree engine: the (id, name, type) entries of the listing in use
    diskOdb,     \* tree engine: the ODB of an on-disk repository
    shallowOut,  \* tree engine: the results CreateShallowTree returned so far
    realOut,     \* tree engine: the results CreateTree on the disk repository returned
    readOut,     \* tree engine: the results of ReadTreeData on the shallow trees
    treeData,    \* tree reading: the serialised bytes of a stored tree object
    readRes,     \* tree reading: the last call of ReadTree / ReadTreeData and its result
    objs,        \* repository: the objects [id, kind] of the repository's ODB
    head,        \* repository: the commit HEAD resolves to, 0 while HEAD is unborn
    tags,        \* repository: the ids x for which refs/tags/keep-<x> exists
    bare,        \* repository: the repository has no work tree (no .git directory)
    workdir,     \* repository: the content of the work tree
    written,     \* repository: the ids WriteBlob has returned
    last,        \* repository: the last call on a handle, its inputs and its outcome
    procs,       \* KeepTag race: each process's place in its call of KeepTag
    refLock,     \* KeepTag race: the process holding the lock file of the ref, else 0
    casBlobs,    \* symlink check: the symlink targets the remote CAS holds
    checkIds,    \* symlink check: the digests check_symlinks is called with
    checkRes,    \* symlink check: the result of the call, once it is made
    mutex_,      \* ODB lock: the threads holding GitCAS::mutex_ shared, and its exclusive holder
    threads,     \* ODB lock: each thread's handle on the ODB and its place in a call
    retry,       \* retry loop: one call of KeepTag, KeepTree or InitAndOpen and its attempts
    memBackend,  \* in-memory backend: the InMemoryODBBackend of a fake repository
    memLast,     \* in-memory backend: the last call of a backend function and its result
    repo_mutex,  \* open/init: the holders of the two static repo_mutex objects, 0 if free
    openers,     \* open/init: each thread's place in Open(path) or InitAndOpen
    handles,     \* handles: the GitRepo objects of a caller and their members
    extCas,      \* handles: the caller still owns the GitCASPtr it opens fake handles with
    opens,       \* handles: the number of GuardedRepo objects made so far
    freed,       \* handles: the runs of ~GuardedRepo that had a repository to free
    blobReader,  \* blob reader: the BlobReader that ReadBlobs returned
    readLog,     \* blob reader: for each call of Next, the hashes of the blobs it returned
    retrieved,   \* retrieve to fds: the call of CommonRetrieveToFds last made
    uploadRun,   \* tree upload: the run of CommonUploadTreeNative last made
    served       \* execution service: the call of Execute last served

treeVars == <<entrySet, diskOdb, shallowOut, realOut, readOut>>
readVars == <<treeData, readRes>>
repoVars == <<objs, head, tags, bare, workdir, written, last>>
tagVars == <<procs, refLock>>
checkVars == <<casBlobs, checkIds, checkRes>>
lockVars == <<mutex_, threads>>
memVars == <<memBackend, memLast>>
coreVars == <<treeVars, readVars, repoVars, tagVars, checkVars, lockVars, retry>>
openVars == <<repo_mutex, openers>>
handleVars == <<handles, extCas, opens, freed>>
readerVars == <<blobReader, readLog>>
apiVars == <<retrieved, uploadRun, served>>
extraVars == <<memVars, openVars, handleVars, readerVars, apiVars>>
vars == <<coreVars, extraVars>>

\* ------------------------------- the symlink check of a tree from the CAS

\* symlink targets as the CAS stores them, and PathIsNonUpwards of them
LinkTargets == {"dir/file", "../file"}
PathIsNonUpwards(data) == data # "../file"

\* what the remote CAS holds under the ids of symlinks
CasStates == [1..MaxSymlinks -> LinkTargets \cup {"absent"}]

\* the digests ReadTree hands to check_symlinks: one per raw id, of size 0
RECURSIVE DistinctSeqs(_)
DistinctSeqs(S) ==
    {<<>>} \cup UNION {{<<x>> \o t : t \in DistinctSeqs(S \ {x})} : x \in S}
DigestBatches ==
    {[k \in 1..Len(q) |-> [hash |-> q[k], size_bytes |-> 0]] : q \in DistinctSeqs(1..MaxSymlinks)}

\* the threshold above which blobs are not read in one batch; the value is
\* set in message_limits.hpp and plays no part for digests of size 0
kMaxBatchTransferSize == 4

\* cas_->ReadSingleBlob: the blob, if the CAS holds it
ReadSingleBlob(cas, digest) ==
    IF cas[digest.hash] = "absent" THEN <<>>
    ELSE <<[digest |-> digest, data |-> cas[digest.hash]]>>

\* cas_->BatchReadBlobs over ids[begin .. current - 1]: the blobs found
RECURSIVE BatchReadBlobs(_, _, _, _)
BatchReadBlobs(cas, ids, begin, current) ==
    IF begin >= current THEN <<>>
    ELSE ReadSingleBlob(cas, ids[begin]) \o BatchReadBlobs(cas, ids, begin + 1, current)

NewBlobReader(ids) == [ids |-> ids, begin_ |-> 1, current_ |-> 1]

\* the while loop of BlobReader::Next
RECURSIVE NextLoop(_, _, _)
NextLoop(cas, r, size) ==
    IF r.current_ = Len(r.ids) + 1 THEN [blobs |-> <<>>, reader |-> r]
    ELSE LET blob_size == r.ids[r.current_].size_bytes
         IN  IF blob_size = 0 \/ size + blob_size > kMaxBatchTransferSize
             THEN IF r.begin_ = r.current_
                  THEN [blobs |-> ReadSingleBlob(cas, r.ids[r.begin_]),
                        reader |-> [r EXCEPT !.begin_ = r.current_ + 1,
                                             !.current_ = r.current_ + 1]]
                  ELSE [blobs |-> BatchReadBlobs(cas, r.ids, r.begin_, r.current_),
                        reader |-> [r EXCEPT !.begin_ = r.current_]]
             ELSE NextLoop(cas, [r EXCEPT !.current_ = @ + 1], size + blob_size)

\* a Next without the read after the loop
Next_Blobs_NoTail(cas, r) ==
    LET w == NextLoop(cas, r, 0)
    IN  [blobs |-> w.blobs, reader |-> [w.reader EXCEPT !.begin_ = w.reader.current_]]

\* BlobReader::Next: the next blobs read and the reader after the call
Next_Blobs(cas, r) ==
    LET w == NextLoop(cas, r, 0)
    IN  IF w.reader.begin_ # w.reader.current_
        THEN [blobs |-> BatchReadBlobs(cas, r.ids, w.reader.begin_, w.reader.current_),
              reader |-> [w.reader EXCEPT !.begin_ = w.reader.current_]]
        ELSE w

\* the while loop of the check_symlinks lambda of ReadGitTree
RECURSIVE CheckLoop(_, _, _, _, _)
CheckLoop(cas, reader, blobs, count, size) ==
    IF blobs = <<>> THEN TRUE
    ELSE IF count + Len(blobs) > size THEN FALSE
    ELSE IF \E k \in 1..Len(blobs) : ~PathIsNonUpwards(blobs[k].data) THEN FALSE
    ELSE LET n == Next_Blobs(cas, reader)
         IN  CheckLoop(cas, n.reader, n.blobs, count + Len(blobs), size)

\* the check_symlinks lambda of ReadGitTree
ReadGitTree_check_symlinks(cas, ids) ==
    LET n == Next_Blobs(cas, NewBlobReader(ids))
    IN  CheckLoop(cas, n.reader, n.blobs, 0, Len(ids))

NoCheck == [done |-> FALSE, val |-> FALSE]

CheckIdle == casBlobs = [i \in 1..MaxSymlinks |-> "absent"] /\ checkIds = <<>>
             /\ checkRes = NoCheck

\* ======================================================= repository handles

\* a handle: real (with refs, index and work tree) or fake (ODB only)
Handles == [is_repo_fake_ : BOOLEAN]

IsRepoFake_AlwaysReal(h) == FALSE

IsRepoFake(h) == h.is_repo_fake_

\* ids of the objects the operations meet; an id names content and kind, as a
\* SHA-1 of "<kind> <size>\0<content>" does
Contents == 1 .. MaxContents
Messages == {1}
BlobHash(content) == 10 + content
RootTreeId(w) == 100 + w
SubTreeOf(root) == 100 + root
CommitId(tree, message) == 1000 * message + tree
TagId(target, message) == 5000 * message + target

IsRootTree(t) == \E w \in Contents : t = RootTreeId(w)
IsSubTree(t) == \E w \in Contents : t = SubTreeOf(RootTreeId(w))

\* the repository at repo_path that the fetch operations read: one commit of
\* an empty tree
SrcObjs == {[id |-> 50, kind |-> "commit"], [id |-> 51, kind |-> "tree"]}

\* the tip of the branch of the repository at repo_path
SrcTip == (CHOOSE o \in SrcObjs : o.kind = "commit").id

HasObj(id, kind) == [id |-> id, kind |-> kind] \in objs
HasAnyObj(id) == \E o \in objs : o.id = id

\* hex ids as callers pass them: -1 is no hex string of 40 digits, 0 is the
\* all-zero id, which no object has
git_oid_fromstr(hex) == IF hex >= 0 THEN "GIT_OK" ELSE "GIT_ERROR"

\* what a call returns: an optional (has, val), a bool (ok), a pair (ok and an
\* optional) or an expected (val or the error in info)
Ret(ok, has, val, info) == [ok |-> ok, has |-> has, val |-> val, info |-> info]
None == Ret(FALSE, FALSE, 0, "")
Some(v) == Ret(TRUE, TRUE, v, "")
True == Ret(TRUE, FALSE, 0, "")
False == Ret(FALSE, FALSE, 0, "")
Unexpected(e) == Ret(FALSE, FALSE, 0, e)

\* the outcome of a call: its result, whether the caller's logger was called
\* with fatal = true, which mode of the ODB lock it took, and the state it left
Outcome(ret, fatal, locked, o, h, t) ==
    [ret |-> ret, fatal |-> fatal, locked |-> locked, objs |-> o, head |-> h, tags |-> t]
NoChange(ret, fatal, locked) == Outcome(ret, fatal, locked, objs, head, tags)

\* the tree the commit points to
TreeOfCommit(c) == IF c = 50 THEN 51 ELSE c % 1000

\* git_tree_entry_bypath in the trees the work tree produces: the root holds
\* the directory "dir" and the symlink "link", "dir" holds the file "f"
git_tree_entry_bypath(t, path) ==
    CASE IsRootTree(t) /\ path = "dir" ->
            [rc |-> "GIT_OK", id |-> SubTreeOf(t), mode |-> GIT_FILEMODE_TREE]
      [] IsRootTree(t) /\ path = "link" ->
            [rc |-> "GIT_OK", id |-> BlobHash(t - 100), mode |-> GIT_FILEMODE_LINK]
      [] IsRootTree(t) /\ path = "dir/f" /\ HasObj(SubTreeOf(t), "tree") ->
            [rc |-> "GIT_OK", id |-> BlobHash(t - 100), mode |-> GIT_FILEMODE_BLOB]
      [] IsSubTree(t) /\ path = "f" ->
            [rc |-> "GIT_OK", id |-> BlobHash(t - 200), mode |-> GIT_FILEMODE_BLOB]
      [] OTHER -> [rc |-> "GIT_ENOTFOUND", id |-> 0, mode |-> GIT_FILEMODE_UNREADABLE]

\* the objects staging and committing the work tree writes
StagedBlobs == {[id |-> BlobHash(workdir), kind |-> "blob"]}
StagedTrees == {[id |-> RootTreeId(workdir), kind |-> "tree"],
                [id |-> SubTreeOf(RootTreeId(workdir)), kind |-> "tree"]}

\* the commit is written but HEAD is left where it was
StageAndCommitAllAnonymous_NoUpdateRef(h, message, fault) ==
    IF IsRepoFake(h) THEN NoChange(None, TRUE, "none")
    ELSE IF fault = "throw" THEN NoChange(None, FALSE, "none")
    ELSE IF bare THEN NoChange(None, TRUE, "shared")
    ELSE IF fault = "write"
         THEN Outcome(None, TRUE, "shared", objs \cup StagedBlobs, head, tags)
    ELSE IF fault \in {"lookup", "commit"}
         THEN Outcome(None, TRUE, "shared", objs \cup StagedBlobs \cup StagedTrees, head, tags)
    ELSE LET c == CommitId(RootTreeId(workdir), message)
         IN  Outcome(Some(c), FALSE, "shared",
                     objs \cup StagedBlobs \cup StagedTrees \cup {[id |-> c, kind |-> "commit"]},
                     head, tags)

\* fault names the library call that fails: "throw" the lock, "write"
\* git_index_write_tree, "lookup" git_tree_lookup, "commit" git_commit_create
\* (which also refuses a parentless commit on a HEAD that has a tip)
StageAndCommitAllAnonymous(h, message, fault) ==
    IF IsRepoFake(h) THEN NoChange(None, TRUE, "none")
    ELSE IF fault = "throw" THEN NoChange(None, FALSE, "none")
    ELSE IF bare THEN NoChange(None, TRUE, "shared")
    ELSE IF fault = "write"
         THEN Outcome(None, TRUE, "shared", objs \cup StagedBlobs, head, tags)
    ELSE IF fault \in {"lookup", "commit"}
         THEN Outcome(None, TRUE, "shared", objs \cup StagedBlobs \cup StagedTrees, head, tags)
    ELSE LET c == CommitId(RootTreeId(workdir), message)
         IN  Outcome(Some(c), FALSE, "shared",
                     objs \cup StagedBlobs \cup StagedTrees \cup {[id |-> c, kind |-> "commit"]},
                     c, tags)

\* KeepTag without another process at the ref: "lookup" fails
\* git_revparse_single, "write" fails git_tag_create with an error other
\* than GIT_ELOCKED
KeepTag(h, commit, message, fault) ==
    IF IsRepoFake(h) THEN NoChange(False, TRUE, "none")
    ELSE IF fault = "throw" THEN NoChange(False, FALSE, "none")
    ELSE IF git_oid_fromstr(commit) # "GIT_OK" \/ ~HasAnyObj(commit) \/ fault = "lookup"
         THEN NoChange(False, TRUE, "shared")
    ELSE IF commit \in tags THEN NoChange(True, FALSE, "shared")
    ELSE IF fault = "write" THEN NoChange(False, TRUE, "shared")
    ELSE Outcome(True, FALSE, "shared",
                 objs \cup {[id |-> TagId(commit, message), kind |-> "tag"]},
                 head, tags \cup {commit})

GetHeadCommit(h, fault) ==
    IF IsRepoFake(h) THEN NoChange(None, TRUE, "none")
    ELSE IF fault = "throw" THEN NoChange(None, FALSE, "none")
    ELSE IF head = 0 \/ fault = "lookup" THEN NoChange(None, TRUE, "shared")
    ELSE NoChange(Some(head), FALSE, "shared")

\* "lookup" fails git_remote_create_anonymous or the config snapshot, "write"
\* git_remote_fetch; the call takes no lock
FetchFromPath(h, fault) ==
    IF IsRepoFake(h) THEN NoChange(False, TRUE, "none")
    ELSE IF fault = "throw" THEN NoChange(False, FALSE, "none")
    ELSE IF fault \in {"lookup", "write"} THEN NoChange(False, TRUE, "none")
    ELSE Outcome(True, FALSE, "none", objs \cup SrcObjs, head, tags)

KeepTree(h, tree_id, message, fault) ==
    IF IsRepoFake(h) THEN NoChange(False, TRUE, "none")
    ELSE IF fault = "throw" THEN NoChange(False, FALSE, "none")
    ELSE IF git_oid_fromstr(tree_id) # "GIT_OK" THEN NoChange(False, TRUE, "shared")
    ELSE IF ~HasObj(tree_id, "tree") \/ fault = "lookup" THEN NoChange(False, TRUE, "shared")
    ELSE IF tree_id \in tags THEN NoChange(True, FALSE, "shared")
    ELSE IF fault = "write" THEN NoChange(False, TRUE, "shared")
    ELSE Outcome(True, FALSE, "shared",
                 objs \cup {[id |-> TagId(tree_id, message), kind |-> "tag"]},
                 head, tags \cup {tree_id})

\* a failed commit lookup is reported like every other failure
GetSubtreeFromCommit_LookupIsFatal(h, commit, subdir, fault) ==
    IF fault = "throw" THEN NoChange(Unexpected("Fatal"), FALSE, "none")
    ELSE IF git_oid_fromstr(commit) # "GIT_OK"
         THEN NoChange(Unexpected("Fatal"), TRUE, "shared")
    ELSE IF ~HasObj(commit, "commit") \/ fault = "lookup"
         THEN NoChange(Unexpected("Fatal"), TRUE, "shared")
    ELSE IF ~HasObj(TreeOfCommit(commit), "tree") \/ fault = "read"
         THEN NoChange(Unexpected("Fatal"), TRUE, "shared")
    ELSE IF subdir # "."
         THEN LET e == git_tree_entry_bypath(TreeOfCommit(commit), subdir)
              IN  IF e.rc # "GIT_OK" THEN NoChange(Unexpected("Fatal"), TRUE, "shared")
                  ELSE NoChange(Some(e.id), FALSE, "shared")
    ELSE NoChange(Some(TreeOfCommit(commit)), FALSE, "shared")

\* "lookup" fails git_commit_lookup, "read" git_commit_tree
GetSubtreeFromCommit(h, commit, subdir, fault) ==
    IF fault = "throw" THEN NoChange(Unexpected("Fatal"), FALSE, "none")
    ELSE IF git_oid_fromstr(commit) # "GIT_OK"
         THEN NoChange(Unexpected("Fatal"), TRUE, "shared")
    ELSE IF ~HasObj(commit, "commit") \/ fault = "lookup"
         THEN NoChange(Unexpected("NotFound"), TRUE, "shared")
    ELSE IF ~HasObj(TreeOfCommit(commit), "tree") \/ fault = "read"
         THEN NoChange(Unexpected("Fatal"), TRUE, "shared")
    ELSE IF subdir # "."
         THEN LET e == git_tree_entry_bypath(TreeOfCommit(commit), subdir)
              IN  IF e.rc # "GIT_OK" THEN NoChange(Unexpected("Fatal"), TRUE, "shared")
                  ELSE NoChange(Some(e.id), FALSE, "shared")
    ELSE NoChange(Some(TreeOfCommit(commit)), FALSE, "shared")

\* the tree is looked up also when subdir is "."
GetSubtreeFromTree_AlwaysLookup(h, tree_id, subdir, fault) ==
    IF fault = "throw" THEN NoChange(None, FALSE, "none")
    ELSE IF git_oid_fromstr(tree_id) # "GIT_OK" THEN NoChange(None, TRUE, "shared")
    ELSE IF ~HasObj(tree_id, "tree") \/ fault = "lookup"
         THEN NoChange(None, TRUE, "shared")
    ELSE IF subdir = "." THEN NoChange(Some(tree_id), FALSE, "shared")
    ELSE LET e == git_tree_entry_bypath(tree_id, subdir)
         IN  IF e.rc # "GIT_OK" THEN NoChange(None, TRUE, "shared")
             ELSE NoChange(Some(e.id), FALSE, "shared")

\* "lookup" fails git_tree_lookup
GetSubtreeFromTree(h, tree_id, subdir, fault) ==
    IF subdir # "."
    THEN IF fault = "throw" THEN NoChange(None, FALSE, "none")
         ELSE IF git_oid_fromstr(tree_id) # "GIT_OK" THEN NoChange(None, TRUE, "shared")
         ELSE IF ~HasObj(tree_id, "tree") \/ fault = "lookup"
              THEN NoChange(None, TRUE, "shared")
         ELSE LET e == git_tree_entry_bypath(tree_id, subdir)
              IN  IF e.rc # "GIT_OK" THEN NoChange(None, TRUE, "shared")
                  ELSE NoChange(Some(e.id), FALSE, "shared")
    ELSE NoChange(Some(tree_id), FALSE, "none")

\* the paths callers ask about: the repository root, its directory "dir", and
\* a directory outside every repository
Fpaths == {"root", "root/dir", "outside"}

\* "discover" fails git_repository_discover with an error other than
\* GIT_ENOTFOUND; the result is the root, or "" where no repository is
GetRepoRootFromPath(fpath, fault) ==
    IF fault = "throw" THEN [ret |-> Ret(FALSE, FALSE, 0, ""), fatal |-> FALSE]
    ELSE IF fault = "discover" THEN [ret |-> Ret(FALSE, FALSE, 0, ""), fatal |-> TRUE]
    ELSE IF fpath = "outside" THEN [ret |-> Ret(TRUE, TRUE, 0, ""), fatal |-> FALSE]
    ELSE [ret |-> Ret(TRUE, TRUE, 0, "root"), fatal |-> FALSE]

\* std::filesystem::relative(fpath, root)
relative(fpath, root) ==
    IF root = "" THEN ""
    ELSE IF fpath = "root" THEN "."
    ELSE IF fpath = "root/dir" THEN "dir"
    ELSE "../outside"

GetSubtreeFromPath(h, fpath, head_commit, fault) ==
    LET root == GetRepoRootFromPath(fpath, fault)
    IN  IF ~root.ret.has THEN NoChange(None, root.fatal, "none")
        ELSE LET res == GetSubtreeFromCommit(h, head_commit,
                                             relative(fpath, root.ret.info), fault)
             IN  IF ~res.ret.ok THEN NoChange(None, res.fatal, res.locked)
                 ELSE NoChange(Some(res.ret.val), res.fatal, res.locked)

CheckCommitExists_NotFoundIsError(h, commit, fault) ==
    IF git_oid_fromstr(commit) # "GIT_OK" THEN NoChange(None, TRUE, "none")
    ELSE IF fault = "throw" THEN NoChange(None, FALSE, "none")
    ELSE IF fault = "lookup" \/ ~HasObj(commit, "commit") THEN NoChange(None, TRUE, "shared")
    ELSE NoChange(Some(1), FALSE, "shared")

\* an optional bool is Some(1) for true and Some(0) for false; "lookup" fails
\* the lookup with an error other than GIT_ENOTFOUND
CheckCommitExists(h, commit, fault) ==
    IF git_oid_fromstr(commit) # "GIT_OK" THEN NoChange(None, TRUE, "none")
    ELSE IF fault = "throw" THEN NoChange(None, FALSE, "none")
    ELSE IF fault = "lookup" THEN NoChange(None, TRUE, "shared")
    ELSE IF ~HasObj(commit, "commit") THEN NoChange(Some(0), FALSE, "shared")
    ELSE NoChange(Some(1), FALSE, "shared")

CheckTreeExists(h, tree_id, fault) ==
    IF git_oid_fromstr(tree_id) # "GIT_OK" THEN NoChange(None, TRUE, "none")
    ELSE IF fault = "throw" THEN NoChange(None, FALSE, "none")
    ELSE IF fault = "lookup" THEN NoChange(None, TRUE, "shared")
    ELSE IF ~HasObj(tree_id, "tree") THEN NoChange(Some(0), FALSE, "shared")
    ELSE NoChange(Some(1), FALSE, "shared")

CheckBlobExists(h, blob_id, fault) ==
    IF git_oid_fromstr(blob_id) # "GIT_OK" THEN NoChange(None, TRUE, "none")
    ELSE IF fault = "throw" THEN NoChange(None, FALSE, "none")
    ELSE IF fault = "lookup" THEN NoChange(None, TRUE, "shared")
    ELSE IF ~HasObj(blob_id, "blob") THEN NoChange(Some(0), FALSE, "shared")
    ELSE NoChange(Some(1), FALSE, "shared")

\* GitCAS::ReadObject of a blob: its content; "read" fails it
ReadObject(id, fault) ==
    IF fault = "read" \/ ~HasObj(id, "blob") THEN None
    ELSE Some(CHOOSE c \in Contents : BlobHash(c) = id)

TryReadBlob_NotFoundIsError(h, blob_id, fault) ==
    IF git_oid_fromstr(blob_id) # "GIT_OK" THEN NoChange(Ret(FALSE, FALSE, 0, ""), TRUE, "none")
    ELSE IF fault = "throw" THEN NoChange(Ret(FALSE, FALSE, 0, ""), FALSE, "none")
    ELSE IF fault = "lookup" \/ ~HasObj(blob_id, "blob")
         THEN NoChange(Ret(FALSE, FALSE, 0, ""), TRUE, "shared")
    ELSE LET data == ReadObject(blob_id, fault)
         IN  IF data.has THEN NoChange(Ret(TRUE, TRUE, data.val, ""), FALSE, "shared")
             ELSE NoChange(Ret(FALSE, FALSE, 0, ""), TRUE, "shared")

\* the pair (ok, optional data)
TryReadBlob(h, blob_id, fault) ==
    IF git_oid_fromstr(blob_id) # "GIT_OK" THEN NoChange(Ret(FALSE, FALSE, 0, ""), TRUE, "none")
    ELSE IF fault = "throw" THEN NoChange(Ret(FALSE, FALSE, 0, ""), FALSE, "none")
    ELSE IF fault = "lookup" THEN NoChange(Ret(FALSE, FALSE, 0, ""), TRUE, "shared")
    ELSE IF ~HasObj(blob_id, "blob") THEN NoChange(Ret(TRUE, FALSE, 0, ""), FALSE, "shared")
    ELSE LET data == ReadObject(blob_id, fault)
         IN  IF data.has THEN NoChange(Ret(TRUE, TRUE, data.val, ""), FALSE, "shared")
             ELSE NoChange(Ret(FALSE, FALSE, 0, ""), TRUE, "shared")

WriteBlob_RequiresReal(h, content, fault) ==
    IF IsRepoFake(h) THEN NoChange(None, TRUE, "none")
    ELSE IF fault = "throw" THEN NoChange(None, FALSE, "none")
    ELSE IF fault = "write" THEN NoChange(None, TRUE, "shared")
    ELSE Outcome(Some(BlobHash(content)), FALSE, "shared",
                 objs \cup {[id |-> BlobHash(content), kind |-> "blob"]}, head, tags)

WriteBlob_NotStored(h, content, fault) ==
    IF fault = "throw" THEN NoChange(None, FALSE, "none")
    ELSE IF fault = "write" THEN NoChange(None, TRUE, "shared")
    ELSE NoChange(Some(BlobHash(content)), FALSE, "shared")

\* "write" fails git_blob_create_from_buffer
WriteBlob(h, content, fault) ==
    IF fault = "throw" THEN NoChange(None, FALSE, "none")
    ELSE IF fault = "write" THEN NoChange(None, TRUE, "shared")
    ELSE Outcome(Some(BlobHash(content)), FALSE, "shared",
                 objs \cup {[id |-> BlobHash(content), kind |-> "blob"]}, head, tags)

\* the result is the entry's id, its type (in info) and, not modelled, a
\* symlink's target; the call has no logger; "lookup" fails git_tree_lookup,
\* "read" the read of a symlink's target
GetObjectByPathFromTree(h, tree_id, rel_path, fault) ==
    IF rel_path = "." THEN NoChange(Ret(TRUE, TRUE, tree_id, "Tree"), FALSE, "none")
    ELSE IF fault = "throw" THEN NoChange(None, FALSE, "none")
    ELSE IF git_oid_fromstr(tree_id) # "GIT_OK" THEN NoChange(None, FALSE, "shared")
    ELSE IF ~HasObj(tree_id, "tree") \/ fault = "lookup" THEN NoChange(None, FALSE, "shared")
    ELSE LET e == git_tree_entry_bypath(tree_id, rel_path)
             t == GitFileModeToObjectType(e.mode)
         IN  IF e.rc # "GIT_OK" \/ ~t.has THEN NoChange(None, FALSE, "shared")
             ELSE IF IsSymlinkObject(t.type) /\ ~ReadObject(e.id, fault).has
                  THEN NoChange(None, FALSE, "shared")
             ELSE NoChange(Ret(TRUE, TRUE, e.id, t.type), FALSE, "shared")

\* the backend that forwards to this ODB is not added: the objects stay in
\* the ODB of the temporary repository
LocalFetchViaTmpRepo_NotForwarded(h, fault) ==
    IF fault = "throw" THEN NoChange(False, FALSE, "none")
    ELSE IF fault \in {"tmpdir", "lookup", "write"} THEN NoChange(False, TRUE, "none")
    ELSE NoChange(True, FALSE, "none")

\* "tmpdir" fails the creation of the temporary directory, "lookup" the
\* config snapshot, "write" the fetch in the temporary repository, whose
\* backend forwards every fetched object into this ODB
LocalFetchViaTmpRepo(h, fault) ==
    IF fault = "throw" THEN NoChange(False, FALSE, "none")
    ELSE IF fault \in {"tmpdir", "lookup", "write"} THEN NoChange(False, TRUE, "none")
    ELSE Outcome(True, FALSE, "none", objs \cup SrcObjs, head, tags)

\* ---------------------------------------------- repository: calls in sequence

NoCall == [op |-> "none", fake |-> FALSE, arg |-> 0, arg2 |-> "", fault |-> "none",
           ret |-> None, fatal |-> FALSE, locked |-> "none", changed |-> FALSE,
           refsChanged |-> FALSE, after |-> 0, prevOp |-> "none", prevOk |-> FALSE]

RepoIdle == objs = {} /\ head = 0 /\ tags = {} /\ bare = FALSE /\ workdir = 1
            /\ written = {} /\ last = NoCall

\* ------------------------------------- KeepTag of two processes on one ref
\* (the loop of KeepTree is the same)

\* the processes that share the repository directory
Procs == {1, 2}

\* the commit both tag
TagTarget == CommitId(RootTreeId(1), 1)

IdleProc == [pc |-> "idle", max_attempts |-> 0, locked_attempts |-> 0,
             calls |-> 0, ret |-> FALSE, fatal |-> FALSE]

TagIdle == procs = [p \in Procs |-> IdleProc] /\ refLock = 0


\* ------------------------------ the ODB lock: GitCAS::mutex_ and its handles

\* the threads that share one GitCAS, each with a handle of its own
NumThreads == 3
Threads == 1..NumThreads

\* the operations of a handle that write to the ODB or the repository
WriteOps == {"WriteBlob", "CreateTree", "KeepTag", "KeepTree", "StageAndCommitAllAnonymous"}

\* operations that only read, each inside one locked block
ReadOps == {"CheckCommitExists", "TryReadBlob", "GetSubtreeFromCommit"}

\* a thread without a handle; pc is the place of the thread in its call:
\* "lock" before the lock is taken, then the locked block named after what it
\* does ("wrap", "write", "read", "lookup", "free"), "walk" for the tree walk
NoThread == [handle |-> FALSE, op |-> "", pc |-> "idle"]

LockIdle == mutex_ = [shared |-> {}, unique |-> 0] /\ threads = [t \in Threads |-> NoThread]

\* std::shared_lock: granted while no thread owns the mutex exclusively
shared_lock(m, t) == [ok |-> m.unique = 0, m |-> [m EXCEPT !.shared = @ \cup {t}]]

\* std::unique_lock: granted while no thread holds the mutex in any mode
unique_lock(m, t) == [ok |-> m.unique = 0 /\ m.shared = {}, m |-> [m EXCEPT !.unique = t]]

\* the end of the scope of a lock
unlock(m, t) == [shared |-> m.shared \ {t}, unique |-> IF m.unique = t THEN 0 ELSE m.unique]

\* a write that takes no lock at all
WriteLock_None(m, t) == [ok |-> TRUE, m |-> m]

\* "share the odb lock" at the head of each write operation
WriteLock(m, t) == shared_lock(m, t)

\* a destructor that only shares the lock
GuardedRepo_Lock_Shared(m, t) == shared_lock(m, t)

\* ~GuardedRepo: the lock taken before git_repository_free
GuardedRepo_Lock(m, t) == unique_lock(m, t)

\* a lookup that takes no lock
ReadTree_Lock_None(m, t) == [ok |-> TRUE, m |-> m]

\* ReadTree: the lock of the block around git_tree_lookup
ReadTree_Lock(m, t) == shared_lock(m, t)

\* the lock an operation takes, and the block it then enters
LockOf(op, m, t) ==
    CASE op = "GitRepo" -> unique_lock(m, t)
      [] op = "~GuardedRepo" -> GuardedRepo_Lock(m, t)
      [] op = "ReadTree" -> ReadTree_Lock(m, t)
      [] op \in WriteOps -> WriteLock(m, t)
      [] OTHER -> shared_lock(m, t)

BlockOf(op) ==
    CASE op = "GitRepo" -> "wrap"
      [] op = "~GuardedRepo" -> "free"
      [] op = "ReadTree" -> "lookup"
      [] op \in WriteOps -> "write"
      [] OTHER -> "read"

\* ----------------- the retry loop of KeepTag, KeepTree and InitAndOpen

\* the operations that create a ref or a repository under the retry loop
RetryOps == {"KeepTag", "KeepTree", "InitAndOpen"}

\* the results of git_tag_create and git_repository_init
GitErrors == {"GIT_OK", "GIT_ELOCKED", "GIT_ERROR"}

\* no call yet; errs are the results of the attempts of the call, rechecks
\* what each look for the tag or repository after GIT_ELOCKED found
NoRetry == [op |-> "", pc |-> "idle", max_attempts |-> 0, errs |-> <<>>,
            rechecks |-> <<>>, ret |-> FALSE, fatal |-> FALSE, calls |-> 0]

RetryIdle == retry = NoRetry

\* --------------------------------- the in-memory backend as libgit2 calls it

\* the listings a backend may point to: each id of RawIds has no group, or a
\* group of up to MaxEntries nodes, which may be empty; the backend only
\* tells trees from other types, so nodes are files or trees
MemGroups ==
    UNION {{[j \in 1..n |-> [name |-> AllNames[j], type |-> f[j]]] :
               f \in [1..n -> {"File", "Tree"}]} : n \in 0..MaxEntries}

RECURSIVE MemListingOf(_, _)
MemListingOf(g, i) ==
    IF i = 0 THEN <<>>
    ELSE IF g[i].has THEN Append(MemListingOf(g, i - 1), [id |-> i, nodes |-> g[i].nodes])
         ELSE MemListingOf(g, i - 1)

MemListings ==
    {MemListingOf(g, Cardinality(RawIds)) :
        g \in [RawIds -> {[has |-> TRUE, nodes |-> n] : n \in MemGroups}
                            \cup {[has |-> FALSE, nodes |-> <<>>]}]}

\* the serialised trees git_odb_write hands to the backend, and the ids the
\* ODB asks the backend about: raw ids of the listing and hashes of trees
MemData ==
    {<<>>} \cup {<<[mode |-> GIT_FILEMODE_BLOB, name |-> AllNames[1], id |-> i]>> : i \in RawIds}

MemIds == RawIds \cup {TreeHash(d) : d \in MemData}

NoMemCall == [op |-> "none", id |-> 0, type |-> "", data |-> <<>>, rc |-> "",
              out |-> <<>>, before |-> NewInMemoryODBBackend(FALSE, <<>>)]

MemIdle == memBackend = NewInMemoryODBBackend(FALSE, <<>>) /\ memLast = NoMemCall

\* ------------------------------- opening and initialising repositories

\* a thread outside both functions
NoOpener == [op |-> "", pc |-> "idle", max_attempts |-> 0]

\* the static repo_mutex of GitRepo(path) (ctor) and the static repo_mutex
\* of InitAndOpen (init) are two objects
OpenIdle == repo_mutex = [ctor |-> 0, init |-> 0] /\ openers = [t \in Threads |-> NoOpener]

\* ----------------------------------------- handles and what they own

\* the GitRepo objects of the caller, and the GitCAS of the caller
Slots == 1..MaxHandles
ExtCas == MaxOpens + 1

\* a GitRepo object that is not constructed; of one that is: git_cas_ is 0
\* (nullptr), ExtCas or the number of the GitCAS a path constructor made;
\* repo_ is 0 or the number of the GuardedRepo, whose mutex_ points into the
\* GitCAS repo_cas; opened_as is how the object was first opened, assigned
\* that it has been the target of a move assignment since
NoHandle == [exists |-> FALSE, git_cas_ |-> 0, repo_ |-> 0, repo_cas |-> 0,
             is_repo_fake_ |-> FALSE, opened_as |-> "none", assigned |-> FALSE]

HandleIdle == handles = [h \in Slots |-> NoHandle] /\ extCas = TRUE /\ opens = 0 /\ freed = {}

\* a GitCAS lives as long as a shared pointer to it does
CasAlive(hs, ext, c) == (c = ExtCas /\ ext) \/ \E h \in Slots : hs[h].exists /\ hs[h].git_cas_ = c

\* the last pointer to the GuardedRepo of handle hd goes away while the
\* handles are hs: ~GuardedRepo runs, and with a repository it locks *mutex_
GuardedRepo_dtor(hd, hs, ext) ==
    IF hd.repo_ = 0 THEN {}
    ELSE {[repo |-> hd.repo_, cas |-> hd.repo_cas, cas_alive |-> CasAlive(hs, ext, hd.repo_cas)]}

\* ------------------------------------------ the blob reader on its own

ReaderIdle == blobReader = NewBlobReader(<<>>) /\ readLog = <<>>

\* ------------------------------------------ retrieving artifacts to fds

\* what a callback does when called: return true, return false, or throw
Outcomes == {"true", "false", "throw"}

\* the loop of CommonRetrieveToFds from pair i on; calls holds, for each pair
\* handled so far, what dump_to_stream did and what the fallback did
RECURSIVE RetrieveLoop(_, _, _, _, _, _)
RetrieveLoop(i, n, fdopen, dump, fallback, calls) ==
    IF i > n THEN [result |-> TRUE, calls |-> calls]
    ELSE IF ~fdopen[i] THEN [result |-> FALSE, calls |-> calls]
    ELSE IF dump[i] = "throw"
         THEN [result |-> FALSE,
               calls |-> Append(calls, [dump |-> "throw", fallback |-> "not called"])]
    ELSE IF dump[i] = "true"
         THEN RetrieveLoop(i + 1, n, fdopen, dump, fallback,
                           Append(calls, [dump |-> "true", fallback |-> "not called"]))
    ELSE IF ~fallback.present
         THEN RetrieveLoop(i + 1, n, fdopen, dump, fallback,
                           Append(calls, [dump |-> "false", fallback |-> "not called"]))
    ELSE IF fallback.out[i] = "true"
         THEN RetrieveLoop(i + 1, n, fdopen, dump, fallback,
                           Append(calls, [dump |-> "false", fallback |-> "true"]))
    ELSE [result |-> FALSE,
          calls |-> Append(calls, [dump |-> "false", fallback |-> fallback.out[i]])]

\* CommonRetrieveToFds(artifacts_info, fds, dump_to_stream, fallback)
CommonRetrieveToFds(artifacts_info, fds, fdopen, dump, fallback) ==
    IF Len(artifacts_info) # Len(fds) THEN [result |-> FALSE, calls |-> <<>>]
    ELSE RetrieveLoop(1, Len(artifacts_info), fdopen, dump, fallback, <<>>)

\* ------------------------------------------ uploading a build root

\* digests of the blob tree: one file blob, and the tree blobs; a tree
\* refers to blobs of smaller digests, the largest tree is the build root
FileDigests == {1}
TreeDigests == 2..(MaxTreeNodes + 1)
RootDigest == MaxTreeNodes + 1
BlobTrees == {k \in [TreeDigests -> SUBSET (FileDigests \cup TreeDigests)] :
                 \A t \in TreeDigests : \A d \in k[t] : d < t}
RemoteStates == SUBSET (FileDigests \cup TreeDigests)

\* api->Upload(container, skip_find_missing = true) on the remote CAS cas:
\* any part of the container arrives, and the call succeeds when all did
Upload(container, cas, log) ==
    {[ok |-> u = container, cas |-> cas \cup u,
      log |-> Append(log, [container |-> container, before |-> cas, after |-> cas \cup u])] :
        u \in SUBSET container}

\* the loop over the missing digests without the upload of a tree's content
RECURSIVE BlobTreeLoop_Flat(_, _, _, _, _)
BlobTreeLoop_Flat(kids, pending, container, cas, log) ==
    IF pending = {} THEN {[ok |-> TRUE, container |-> container, cas |-> cas, log |-> log]}
    ELSE {[ok |-> FALSE, container |-> container, cas |-> cas, log |-> log]}
         \cup UNION {BlobTreeLoop_Flat(kids, pending \ {d}, container \cup {d}, cas, log) :
                        d \in pending}

RECURSIVE CommonUploadBlobTree(_, _, _, _)
RECURSIVE BlobTreeLoop(_, _, _, _, _)

\* the loop of CommonUploadBlobTree over the digests reported missing, in
\* the order the remote side reported them; Emplace may throw
BlobTreeLoop(kids, pending, container, cas, log) ==
    IF pending = {} THEN {[ok |-> TRUE, container |-> container, cas |-> cas, log |-> log]}
    ELSE UNION {
        IF d \in TreeDigests
        THEN UNION {
                IF ~r.ok
                THEN {[ok |-> FALSE, container |-> container, cas |-> r.cas, log |-> r.log]}
                ELSE {[ok |-> FALSE, container |-> container, cas |-> r.cas, log |-> r.log]}
                     \cup BlobTreeLoop(kids, pending \ {d}, container \cup {d}, r.cas, r.log) :
                r \in CommonUploadBlobTree(kids, d, cas, log)}
        ELSE {[ok |-> FALSE, container |-> container, cas |-> cas, log |-> log]}
             \cup BlobTreeLoop(kids, pending \ {d}, container \cup {d}, cas, log) :
        d \in pending}

\* CommonUploadBlobTree(blob_tree, api): the outcomes [ok, cas, log]
CommonUploadBlobTree(kids, tree, cas, log) ==
    {[ok |-> FALSE, cas |-> cas, log |-> log]}
    \cup UNION {
        IF ~l.ok THEN {[ok |-> FALSE, cas |-> l.cas, log |-> l.log]}
        ELSE Upload(l.container, l.cas, l.log) :
        l \in BlobTreeLoop(kids, kids[tree] \ cas, {}, cas, log)}

\* CommonUploadTreeNative(api, build_root): ok stands for a digest returned
CommonUploadTreeNative(kids, cas) ==
    {[ok |-> FALSE, cas |-> cas, log |-> <<>>]}
    \cup IF RootDigest \in cas THEN {[ok |-> TRUE, cas |-> cas, log |-> <<>>]}
         ELSE UNION {
             IF ~r.ok THEN {r} ELSE Upload({RootDigest}, r.cas, r.log) :
             r \in CommonUploadBlobTree(kids, RootDigest, cas, <<>>)}

\* ------------------------------------------ the execution service

\* what the parts used by Execute do in one call: each field says whether
\* the part succeeds (or, for the has_ and do_not_cache fields, holds)
ExecuteEnvs ==
    [lock : BOOLEAN, action : BOOLEAN, execution_action : BOOLEAN,
     output_paths : BOOLEAN, exit_zero : BOOLEAN,
     has_stderr : BOOLEAN, store_stderr : BOOLEAN,
     has_stdout : BOOLEAN, store_stdout : BOOLEAN,
     do_not_cache : BOOLEAN, store_action_result : BOOLEAN, write : BOOLEAN]

\* ExecutionServiceImpl::AddResult: the error message returned, "" for none
AddResult(env) ==
    IF ~env.output_paths THEN ""
    ELSE IF env.has_stderr /\ ~env.store_stderr THEN "Could not store stderr"
    ELSE IF env.has_stdout /\ ~env.store_stdout THEN "Could not store stdout"
    ELSE ""

\* ExecutionServiceImpl::GetResponse: the pair of response and message
GetResponse(env) ==
    LET err == AddResult(env)
    IN  IF err # "" THEN [response |-> FALSE, msg |-> err]
        ELSE [response |-> TRUE, msg |-> ""]

\* ExecutionServiceImpl::WriteResponse: the message returned, whether the
\* action result was stored in the action cache, whether the response was written
WriteResponse(env) ==
    LET r == GetResponse(env)
        cache == env.exit_zero /\ ~env.do_not_cache
    IN  IF ~r.response THEN [err |-> r.msg, stored |-> FALSE, written |-> FALSE]
        ELSE IF cache /\ ~env.store_action_result
             THEN [err |-> "Could not store action result", stored |-> FALSE, written |-> FALSE]
        ELSE IF ~env.write
             THEN [err |-> "Could not write execution response", stored |-> cache, written |-> FALSE]
        ELSE [err |-> "", stored |-> cache, written |-> TRUE]

\* ExecutionServiceImpl::Execute
Execute(env) ==
    IF ~env.lock \/ ~env.action \/ ~env.execution_action
    THEN [status |-> "INTERNAL", executed |-> FALSE, stored |-> FALSE, written |-> FALSE]
    ELSE LET w == WriteResponse(env)
         IN  [status |-> IF w.err # "" THEN "INTERNAL" ELSE "OK",
              executed |-> TRUE, stored |-> w.stored, written |-> w.written]

\* ------------------------------------------ the api procedures on their own

RetrieveIdle == retrieved = <<>>
UploadIdle == uploadRun = <<>>
ServeIdle == served = <<>>
ApiIdle == RetrieveIdle /\ UploadIdle /\ ServeIdle

ExtraIdle == MemIdle /\ OpenIdle /\ HandleIdle /\ ReaderIdle /\ ApiIdle

\* ------------------------------------------- tree engine: create and re-read

AllEntries == [id : RawIds, name : Names, type : ObjectTypes]

\* the sets of at most n entries
RECURSIVE EntrySets(_)
EntrySets(n) ==
    IF n = 0 THEN {{}}
    ELSE EntrySets(n - 1) \cup {S \cup {e} : S \in EntrySets(n - 1), e \in AllEntries}

\* what an on-disk ODB may hold under an id of RawIds
ObjectKinds == {"GIT_OBJECT_BLOB", "GIT_OBJECT_TREE"}

NoRead == [op |-> "none", upward |-> {}, ignore_special |-> FALSE, res |-> NoListing]

TreeIdle == entrySet = {} /\ diskOdb = DiskOdb([i \in RawIds |-> "absent"])
            /\ shallowOut = {} /\ realOut = {} /\ readOut = {}

ReadIdle == treeData = <<>> /\ readRes = NoRead

CoreIdle == TreeIdle /\ ReadIdle /\ RepoIdle /\ TagIdle /\ CheckIdle /\ LockIdle /\ RetryIdle

InitTree ==
    /\ entrySet \in EntrySets(MaxEntries)
    /\ diskOdb \in {DiskOdb(t) : t \in [RawIds -> ObjectKinds]}
    /\ shallowOut = {}
    /\ realOut = {}
    /\ readOut = {}
    /\ ReadIdle
    /\ RepoIdle
    /\ TagIdle
    /\ CheckIdle
    /\ LockIdle
    /\ RetryIdle
    /\ ExtraIdle

\* a caller builds some listing of the entries and asks for its shallow tree
DoCreateShallowTree ==
    /\ \E L \in ListingsOf(entrySet), audit \in BOOLEAN :
          shallowOut' = shallowOut \cup {CreateShallowTree(L, audit)}
    /\ UNCHANGED <<entrySet, diskOdb, realOut, readOut, readVars, repoVars, tagVars, checkVars, lockVars, retry, extraVars>>

\* a caller creates the tree in the on-disk repository
DoCreateTree ==
    /\ \E L \in ListingsOf(entrySet), audit \in BOOLEAN :
          LET r == CreateTree(diskOdb, L, audit)
          IN  /\ realOut' = realOut \cup {r.res}
              /\ diskOdb' = r.odb
    /\ UNCHANGED <<entrySet, shallowOut, readOut, readVars, repoVars, tagVars, checkVars, lockVars, retry, extraVars>>

\* a caller reads a shallow tree back from its bytes, with a checker that
\* accepts every symlink
DoReadTreeData ==
    /\ \E s \in shallowOut, audit \in BOOLEAN :
          /\ s.ok
          /\ readOut' = readOut \cup {ReadTreeData(s.bytes, s.id, {}, audit)}
    /\ UNCHANGED <<entrySet, diskOdb, shallowOut, realOut, readVars, repoVars, tagVars, checkVars, lockVars, retry, extraVars>>

NextTree == DoCreateShallowTree \/ DoCreateTree \/ DoReadTreeData

SpecTree == InitTree /\ [][NextTree]_vars

\* --------------------------------------------- tree reading: stored objects

\* the serialised trees of at most n records; a stored object may hold any
\* records, also of modes the engine does not support
RECURSIVE TreeObjects(_)
TreeObjects(n) ==
    IF n = 0 THEN {<<>>}
    ELSE TreeObjects(n - 1)
            \cup {Append(t, e) : t \in TreeObjects(n - 1),
                                 e \in [mode : Modes, name : Names, id : RawIds]}

InitRead ==
    /\ treeData \in TreeObjects(MaxTreeRecords)
    /\ readRes = NoRead
    /\ TreeIdle
    /\ RepoIdle
    /\ TagIdle
    /\ CheckIdle
    /\ LockIdle
    /\ RetryIdle
    /\ ExtraIdle

\* ReadTree on a fake handle whose in-memory ODB holds the tree; a read keeps
\* no state, so one call per stored object shows all it can do
DoReadTree ==
    /\ readRes.op = "none"
    /\ \E upward \in SUBSET RawIds, ign \in BOOLEAN, audit \in BOOLEAN :
          LET b == [NewInMemoryODBBackend(FALSE, <<>>)
                       EXCEPT !.trees = TreesEmplace({}, TreeHash(treeData), treeData)]
          IN  readRes' = [op |-> "ReadTree", upward |-> upward, ignore_special |-> ign,
                          res |-> ReadTree(MemOdb(b), TreeHash(treeData), upward, ign, audit)]
    /\ UNCHANGED <<treeData, treeVars, repoVars, tagVars, checkVars, lockVars, retry, extraVars>>

\* ReadTreeData on the bytes, as ReadGitTree calls it with the computed hash
DoReadStoredTreeData ==
    /\ readRes.op = "none"
    /\ \E upward \in SUBSET RawIds, audit \in BOOLEAN :
          readRes' = [op |-> "ReadTreeData", upward |-> upward, ignore_special |-> FALSE,
                      res |-> ReadTreeData(treeData, TreeHash(treeData), upward, audit)]
    /\ UNCHANGED <<treeData, treeVars, repoVars, tagVars, checkVars, lockVars, retry, extraVars>>

NextRead == DoReadTree \/ DoReadStoredTreeData

SpecRead == InitRead /\ [][NextRead]_vars

\* the hex ids callers pass: malformed, absent, and the ids of the objects
\* the work tree gives
HexArgs == {-1, 0, BlobHash(workdir), RootTreeId(workdir),
            CommitId(RootTreeId(workdir), 1)}

Subdirs == {".", "dir", "missing"}

\* a call that left the repository as it found it has shown all it does, and
\* no later call can tell that it was made: callers go on after the calls
\* that changed the repository, and after a commit
CanCall ==
    \/ last.op = "none"
    \/ last.changed
    \/ last.op = "StageAndCommitAllAnonymous" /\ last.ret.has

\* a call on handle h returned: record it and install the state it left;
\* after is the commit that the call before this one created, if it did
Apply(op, h, arg, arg2, fault, out) ==
    /\ last' = [op |-> op, fake |-> h.is_repo_fake_, arg |-> arg, arg2 |-> arg2,
                fault |-> fault, ret |-> out.ret, fatal |-> out.fatal,
                locked |-> out.locked,
                changed |-> <<out.objs, out.head, out.tags>> # <<objs, head, tags>>,
                refsChanged |-> <<out.head, out.tags>> # <<head, tags>>,
                prevOp |-> last.op,
                prevOk |-> last.ret.ok,
                after |-> IF last.op = "StageAndCommitAllAnonymous" /\ last.ret.has
                          THEN last.ret.val ELSE 0]
    /\ objs' = out.objs
    /\ head' = out.head
    /\ tags' = out.tags
    /\ written' = IF op = "WriteBlob" /\ out.ret.has
                  THEN written \cup {out.ret.val} ELSE written
    /\ UNCHANGED <<bare, workdir, treeVars, readVars, tagVars, checkVars, lockVars, retry, extraVars>>

Init ==
    /\ objs = {}
    /\ head = 0
    /\ tags = {}
    /\ bare \in BOOLEAN
    /\ workdir \in Contents
    /\ written = {}
    /\ last = NoCall
    /\ TreeIdle
    /\ ReadIdle
    /\ TagIdle
    /\ CheckIdle
    /\ LockIdle
    /\ RetryIdle
    /\ ExtraIdle

DoStageAndCommitAllAnonymous ==
    /\ CanCall
    /\ \E h \in Handles, m \in Messages, fault \in {"none", "throw", "write", "lookup", "commit"} :
        Apply("StageAndCommitAllAnonymous", h, m, "", fault,
              StageAndCommitAllAnonymous(h, m, fault))

DoKeepTag ==
    /\ CanCall
    /\ \E h \in Handles, c \in HexArgs, m \in Messages, fault \in {"none", "throw", "lookup", "write"} :
        Apply("KeepTag", h, c, "", fault, KeepTag(h, c, m, fault))

DoGetHeadCommit ==
    /\ CanCall
    /\ \E h \in Handles, fault \in {"none", "throw", "lookup"} :
        Apply("GetHeadCommit", h, 0, "", fault, GetHeadCommit(h, fault))

DoFetchFromPath ==
    /\ CanCall
    /\ \E h \in Handles, fault \in {"none", "throw", "lookup", "write"} :
        Apply("FetchFromPath", h, 0, "", fault, FetchFromPath(h, fault))

DoKeepTree ==
    /\ CanCall
    /\ \E h \in Handles, t \in HexArgs, m \in Messages, fault \in {"none", "throw", "lookup", "write"} :
        Apply("KeepTree", h, t, "", fault, KeepTree(h, t, m, fault))

DoGetSubtreeFromCommit ==
    /\ CanCall
    /\ \E h \in Handles, c \in HexArgs, s \in Subdirs, fault \in {"none", "throw", "lookup", "read"} :
        Apply("GetSubtreeFromCommit", h, c, s, fault, GetSubtreeFromCommit(h, c, s, fault))

DoGetSubtreeFromTree ==
    /\ CanCall
    /\ \E h \in Handles, t \in HexArgs, s \in Subdirs, fault \in {"none", "throw", "lookup"} :
        Apply("GetSubtreeFromTree", h, t, s, fault, GetSubtreeFromTree(h, t, s, fault))

DoGetSubtreeFromPath ==
    /\ CanCall
    /\ \E h \in Handles, c \in HexArgs, f \in Fpaths,
       fault \in {"none", "throw", "discover", "lookup", "read"} :
        Apply("GetSubtreeFromPath", h, c, f, fault, GetSubtreeFromPath(h, f, c, fault))

DoCheckCommitExists ==
    /\ CanCall
    /\ \E h \in Handles, c \in HexArgs \cup {SrcTip}, fault \in {"none", "throw", "lookup"} :
        Apply("CheckCommitExists", h, c, "", fault, CheckCommitExists(h, c, fault))

DoCheckTreeExists ==
    /\ CanCall
    /\ \E h \in Handles, t \in HexArgs, fault \in {"none", "throw", "lookup"} :
        Apply("CheckTreeExists", h, t, "", fault, CheckTreeExists(h, t, fault))

DoCheckBlobExists ==
    /\ CanCall
    /\ \E h \in Handles, b \in HexArgs \cup {BlobHash(c) : c \in Contents},
       fault \in {"none", "throw", "lookup"} :
        Apply("CheckBlobExists", h, b, "", fault, CheckBlobExists(h, b, fault))

DoTryReadBlob ==
    /\ CanCall
    /\ \E h \in Handles, b \in HexArgs \cup {BlobHash(c) : c \in Contents},
       fault \in {"none", "throw", "lookup", "read"} :
        Apply("TryReadBlob", h, b, "", fault, TryReadBlob(h, b, fault))

DoWriteBlob ==
    /\ CanCall
    /\ \E h \in Handles, c \in Contents, fault \in {"none", "throw", "write"} :
        Apply("WriteBlob", h, c, "", fault, WriteBlob(h, c, fault))

DoGetObjectByPathFromTree ==
    /\ CanCall
    /\ \E h \in Handles, t \in HexArgs, p \in Subdirs \cup {"link"},
       fault \in {"none", "throw", "lookup", "read"} :
        Apply("GetObjectByPathFromTree", h, t, p, fault,
              GetObjectByPathFromTree(h, t, p, fault))

DoLocalFetchViaTmpRepo ==
    /\ CanCall
    /\ \E h \in Handles, fault \in {"none", "throw", "tmpdir", "lookup", "write"} :
        Apply("LocalFetchViaTmpRepo", h, 0, "", fault, LocalFetchViaTmpRepo(h, fault))

Next ==
    \/ DoStageAndCommitAllAnonymous
    \/ DoKeepTag
    \/ DoGetHeadCommit
    \/ DoFetchFromPath
    \/ DoKeepTree
    \/ DoGetSubtreeFromCommit
    \/ DoGetSubtreeFromTree
    \/ DoGetSubtreeFromPath
    \/ DoCheckCommitExists
    \/ DoCheckTreeExists
    \/ DoCheckBlobExists
    \/ DoTryReadBlob
    \/ DoWriteBlob
    \/ DoGetObjectByPathFromTree
    \/ DoLocalFetchViaTmpRepo

Spec == Init /\ [][Next]_vars

\* ------------------------------------- KeepTag: the steps of a call

\* git_tag_list_match finds refs/tags/keep-<target>
TagListed == TagTarget \in tags

\* git_tag_create up to the lock file of the ref: with force it overwrites a
\* ref that exists; the lock file of another writer gives GIT_ELOCKED
git_tag_create_lock(force) ==
    IF ~force /\ TagListed THEN "GIT_EEXISTS"
    ELSE IF refLock # 0 THEN "GIT_ELOCKED"
    ELSE "GIT_OK"

ShouldRetry_Never(err) == FALSE

ShouldRetry_Always(err) == TRUE

\* only a failure due to locking is retried
ShouldRetry(err) == err = "GIT_ELOCKED"

Done(p, ok) ==
    procs' = [procs EXCEPT ![p].pc = "done", ![p].ret = ok, ![p].fatal = ~ok]

InitTag ==
    /\ objs = {[id |-> TagTarget, kind |-> "commit"]}
    /\ head = TagTarget
    /\ tags = {}
    /\ bare = FALSE
    /\ workdir = 1
    /\ written = {}
    /\ last = NoCall
    /\ procs = [p \in Procs |-> IdleProc]
    /\ refLock = 0
    /\ TreeIdle
    /\ ReadIdle
    /\ CheckIdle
    /\ LockIdle
    /\ RetryIdle
    /\ ExtraIdle

\* the call starts on a real handle: the target resolves, and the first look
\* for the tag is made
KeepTagStart(p) ==
    /\ procs[p].pc \in {"idle", "done"}
    /\ procs[p].calls < MaxCalls
    /\ IF TagListed
       THEN procs' = [procs EXCEPT ![p].pc = "done", ![p].ret = TRUE, ![p].fatal = FALSE,
                                   ![p].locked_attempts = 0,
                                   ![p].calls = @ + 1]
       ELSE procs' = [procs EXCEPT ![p].pc = "loop", ![p].ret = FALSE, ![p].fatal = FALSE,
                                   ![p].max_attempts = kGitLockNumTries,
                                   ![p].locked_attempts = 0,
                                   ![p].calls = @ + 1]
    /\ UNCHANGED <<objs, tags, refLock>>

\* one round of the loop up to the result of git_tag_create's lock
KeepTagAttempt(p) ==
    /\ procs[p].pc = "loop"
    /\ IF procs[p].max_attempts = 0
       THEN Done(p, FALSE) /\ UNCHANGED <<objs, tags, refLock>>
       ELSE LET err == git_tag_create_lock(TRUE)
            IN  IF err = "GIT_OK"
                THEN /\ refLock' = p
                     /\ objs' = objs \cup {[id |-> TagId(TagTarget, p), kind |-> "tag"]}
                     /\ procs' = [procs EXCEPT ![p].pc = "write",
                                               ![p].max_attempts = @ - 1]
                     /\ UNCHANGED tags
                ELSE /\ procs' = [procs EXCEPT
                                    ![p].pc = IF ShouldRetry(err) THEN "relist" ELSE "done",
                                    ![p].fatal = ~ShouldRetry(err),
                                    ![p].max_attempts = @ - 1,
                                    ![p].locked_attempts =
                                        IF err = "GIT_ELOCKED" THEN @ + 1 ELSE @]
                     /\ UNCHANGED <<objs, tags, refLock>>

\* the holder of the lock file renames it to the ref: git_tag_create is done
KeepTagWriteRef(p) ==
    /\ procs[p].pc = "write"
    /\ refLock = p
    /\ tags' = tags \cup {TagTarget}
    /\ refLock' = 0
    /\ Done(p, TRUE)
    /\ UNCHANGED objs

\* after GIT_ELOCKED: look for the tag again, else sleep and try again
KeepTagRelist(p) ==
    /\ procs[p].pc = "relist"
    /\ IF TagListed THEN Done(p, TRUE)
       ELSE procs' = [procs EXCEPT ![p].pc = "loop"]
    /\ UNCHANGED <<objs, tags, refLock>>

TagStep(A) == A /\ UNCHANGED <<head, bare, workdir, written, last, treeVars, readVars, checkVars, lockVars, retry, extraVars>>

NextTag ==
    \/ \E p \in Procs : TagStep(KeepTagStart(p))
    \/ \E p \in Procs : TagStep(KeepTagAttempt(p))
    \/ \E p \in Procs : TagStep(KeepTagWriteRef(p))
    \/ \E p \in Procs : TagStep(KeepTagRelist(p))

SpecTag == InitTag /\ [][NextTag]_vars

\* ------------------------------------ the symlink check: one call per batch

InitCheck ==
    /\ casBlobs \in CasStates
    /\ checkIds \in DigestBatches
    /\ checkRes = NoCheck
    /\ TreeIdle
    /\ ReadIdle
    /\ RepoIdle
    /\ TagIdle
    /\ LockIdle
    /\ RetryIdle
    /\ ExtraIdle

\* ReadTree calls the checker of ReadGitTree on the batch it gathered
DoCheckSymlinks ==
    /\ ~checkRes.done
    /\ checkRes' = [done |-> TRUE, val |-> ReadGitTree_check_symlinks(casBlobs, checkIds)]
    /\ UNCHANGED <<casBlobs, checkIds, treeVars, readVars, repoVars, tagVars, lockVars, retry, extraVars>>

NextCheck == DoCheckSymlinks

SpecCheck == InitCheck /\ [][NextCheck]_vars

\* ------------------------------------- the ODB lock: threads of one GitCAS

InitLock ==
    /\ LockIdle
    /\ RetryIdle
    /\ ExtraIdle
    /\ TreeIdle
    /\ ReadIdle
    /\ RepoIdle
    /\ TagIdle
    /\ CheckIdle

LockStep(A) == A /\ UNCHANGED <<treeVars, readVars, repoVars, tagVars, checkVars, retry, extraVars>>

\* GitRepo::Open(git_cas): the constructor is about to wrap the ODB
Open(t) ==
    /\ threads[t] = NoThread
    /\ threads' = [threads EXCEPT ![t] = [handle |-> FALSE, op |-> "GitRepo", pc |-> "lock"]]
    /\ UNCHANGED mutex_

\* a call of an operation on the thread's handle, up to its lock
Call(t, op) ==
    /\ threads[t].handle /\ threads[t].pc = "idle"
    /\ threads' = [threads EXCEPT ![t].op = op, ![t].pc = "lock"]
    /\ UNCHANGED mutex_

\* the last owner of the handle lets go of it: ~GuardedRepo runs with a
\* repository to free
Destroy(t) ==
    /\ threads[t].handle /\ threads[t].pc = "idle"
    /\ threads' = [threads EXCEPT ![t].op = "~GuardedRepo", ![t].pc = "lock"]
    /\ UNCHANGED mutex_

\* the lock of the operation is granted and its block is entered
Acquire(t) ==
    /\ threads[t].pc = "lock"
    /\ LockOf(threads[t].op, mutex_, t).ok
    /\ mutex_' = LockOf(threads[t].op, mutex_, t).m
    /\ threads' = [threads EXCEPT ![t].pc = BlockOf(threads[t].op)]

\* the end of a locked block: the lock is released; git_repository_wrap_odb
\* may have failed, which leaves no handle; ReadTree goes on to walk the tree
\* it found, or returns if the lookup failed
Leave(t) ==
    /\ threads[t].pc \in {"wrap", "write", "read", "lookup", "free"}
    /\ mutex_' = unlock(mutex_, t)
    /\ \E ok \in BOOLEAN :
          threads' = [threads EXCEPT ![t] =
              CASE @.pc = "wrap" -> [handle |-> ok, op |-> "", pc |-> "idle"]
                [] @.pc = "free" -> NoThread
                [] @.pc = "lookup" -> [@ EXCEPT !.pc = IF ok THEN "walk" ELSE "idle"]
                [] OTHER -> [@ EXCEPT !.pc = "idle"]]

\* ReadTree: git_tree_walk over the tree, the symlink check, and the return
Walk(t) ==
    /\ threads[t].pc = "walk"
    /\ threads' = [threads EXCEPT ![t].pc = "idle"]
    /\ UNCHANGED mutex_

NextLock ==
    \E t \in Threads :
        \/ LockStep(Open(t))
        \/ \E op \in WriteOps \cup ReadOps \cup {"ReadTree"} : LockStep(Call(t, op))
        \/ LockStep(Destroy(t))
        \/ LockStep(Acquire(t))
        \/ LockStep(Leave(t))
        \/ LockStep(Walk(t))

SpecLock == InitLock /\ [][NextLock]_vars

\* ------------------------ the retry loop: one caller, any results of git

InitRetry ==
    /\ RetryIdle
    /\ ExtraIdle
    /\ LockIdle
    /\ TreeIdle
    /\ ReadIdle
    /\ RepoIdle
    /\ TagIdle
    /\ CheckIdle

\* what a call meets before its loop: a fake handle, a target that does not
\* resolve (git_revparse_single, git_object_lookup) or no signature end
\* KeepTag and KeepTree with false; a tag or repository that is there already
\* ends the call with success
Preludes(op) ==
    IF op = "InitAndOpen" THEN {"present", "absent"}
    ELSE {"fake", "no target", "no signature", "present", "absent"}

\* the call up to its loop
RetryStart(op, pre) ==
    /\ retry.pc \in {"idle", "done"}
    /\ retry.calls < MaxCalls
    /\ retry' = [op |-> op, pc |-> IF pre = "absent" THEN "loop" ELSE "done",
                 max_attempts |-> IF pre = "absent" THEN kGitLockNumTries ELSE 0,
                 errs |-> <<>>, rechecks |-> <<>>,
                 ret |-> pre = "present", fatal |-> pre \notin {"present", "absent"},
                 calls |-> retry.calls + 1]

\* the test of the loop and one attempt: git_tag_create, git_repository_init
RetryAttempt(err) ==
    /\ retry.pc = "loop"
    /\ IF retry.max_attempts = 0
       THEN retry' = [retry EXCEPT !.pc = "done", !.ret = FALSE, !.fatal = TRUE]
       ELSE retry' = [retry EXCEPT
                        !.max_attempts = @ - 1,
                        !.errs = Append(@, err),
                        !.pc = IF err # "GIT_OK" /\ ShouldRetry(err) THEN "recheck" ELSE "done",
                        !.ret = err = "GIT_OK",
                        !.fatal = err # "GIT_OK" /\ ~ShouldRetry(err)]

\* after GIT_ELOCKED: look again; return true if another process has made
\* the tag or repository, else sleep and go round the loop
RetryRecheck(present) ==
    /\ retry.pc = "recheck"
    /\ retry' = [retry EXCEPT !.rechecks = Append(@, present),
                              !.pc = IF present THEN "done" ELSE "sleep",
                              !.ret = present]

\* std::this_thread::sleep_for(kGitLockWaitTime), then the loop again
RetrySleep ==
    /\ retry.pc = "sleep"
    /\ retry' = [retry EXCEPT !.pc = "loop"]

RetryStep(A) == A /\ UNCHANGED <<treeVars, readVars, repoVars, tagVars, checkVars, lockVars, extraVars>>

NextRetry ==
    \/ \E op \in RetryOps : \E pre \in Preludes(op) : RetryStep(RetryStart(op, pre))
    \/ \E err \in GitErrors : RetryStep(RetryAttempt(err))
    \/ \E present \in BOOLEAN : RetryStep(RetryRecheck(present))
    \/ RetryStep(RetrySleep)

SpecRetry == InitRetry /\ [][NextRetry]_vars

\* ------------------------- the in-memory backend: calls through the ODB

InitMem ==
    /\ memBackend \in {NewInMemoryODBBackend(TRUE, L) : L \in MemListings}
                        \cup {NewInMemoryODBBackend(FALSE, <<>>)}
    /\ memLast = NoMemCall
    /\ CoreIdle
    /\ OpenIdle
    /\ HandleIdle
    /\ ReaderIdle
    /\ ApiIdle

MemStep(A) == A /\ UNCHANGED <<coreVars, openVars, handleVars, readerVars, apiVars>>

\* git_odb_write: the id is the hash of the data
DoBackendWrite ==
    \E data \in MemData, type \in {"GIT_OBJECT_BLOB", "GIT_OBJECT_TREE", "GIT_OBJECT_COMMIT"} :
        LET id == TreeHash(data)
            w == backend_write(memBackend, id, data, type)
        IN  /\ memBackend' = w.b
            /\ memLast' = [op |-> "write", id |-> id, type |-> type, data |-> data,
                            rc |-> w.rc, out |-> <<>>, before |-> memBackend]

DoBackendRead ==
    \E id \in MemIds :
        LET r == backend_read(memBackend, id)
        IN  /\ memLast' = [op |-> "read", id |-> id, type |-> r.type, data |-> r.data,
                            rc |-> r.rc, out |-> <<>>, before |-> memBackend]
            /\ UNCHANGED memBackend

DoBackendReadHeader ==
    \E id \in MemIds :
        LET r == backend_read_header(memBackend, id)
        IN  /\ memLast' = [op |-> "read_header", id |-> id, type |-> r.type, data |-> <<>>,
                            rc |-> r.rc, out |-> <<r.len>>, before |-> memBackend]
            /\ UNCHANGED memBackend

DoBackendExists ==
    \E id \in MemIds :
        /\ memLast' = [op |-> "exists", id |-> id, type |-> "", data |-> <<>>,
                        rc |-> IF backend_exists(memBackend, id) THEN "1" ELSE "0",
                        out |-> <<>>, before |-> memBackend]
        /\ UNCHANGED memBackend

NextMem ==
    \/ MemStep(DoBackendWrite)
    \/ MemStep(DoBackendRead)
    \/ MemStep(DoBackendReadHeader)
    \/ MemStep(DoBackendExists)

SpecMem == InitMem /\ [][NextMem]_vars

\* ------------------- opening and initialising repositories: the threads

InitOpen ==
    /\ OpenIdle
    /\ CoreIdle
    /\ MemIdle
    /\ HandleIdle
    /\ ReaderIdle
    /\ ApiIdle

OpenStep(A) == A /\ UNCHANGED <<coreVars, memVars, handleVars, readerVars, apiVars>>

\* GitRepo::Open(path) or GitRepo::InitAndOpen is called: the first statement
\* of GitRepo(path), respectively of InitAndOpen, locks its own repo_mutex
CallOpen(t, op) ==
    /\ openers[t].pc = "idle"
    /\ openers' = [openers EXCEPT ![t] =
          [op |-> op, pc |-> IF op = "Open" THEN "ctor_lock" ELSE "init_lock", max_attempts |-> 0]]
    /\ UNCHANGED repo_mutex

\* InitAndOpen: std::unique_lock lock{repo_mutex}, then the existence probe
LockInit(t) ==
    /\ openers[t].pc = "init_lock"
    /\ repo_mutex.init = 0
    /\ repo_mutex' = [repo_mutex EXCEPT !.init = t]
    /\ openers' = [openers EXCEPT ![t].pc = "probe"]

\* git_repository_open_ext(nullptr, ...) returns: before the loop, or after a
\* locked attempt; a repository that is there is opened with GitRepo(path)
ProbeDone(t, found) ==
    /\ openers[t].pc \in {"probe", "reprobe"}
    /\ openers' = [openers EXCEPT
          ![t].pc = IF found THEN "ctor_lock" ELSE "init",
          ![t].max_attempts = IF openers[t].pc = "probe" THEN kGitLockNumTries ELSE @]
    /\ UNCHANGED repo_mutex

\* the test of the loop and git_repository_init; leaving the function
\* releases the lock of InitAndOpen
InitAttempt(t, err) ==
    /\ openers[t].pc = "init"
    /\ IF openers[t].max_attempts = 0 \/ (err # "GIT_OK" /\ ~ShouldRetry(err))
       THEN /\ openers' = [openers EXCEPT ![t] = NoOpener]
            /\ repo_mutex' = [repo_mutex EXCEPT !.init = 0]
       ELSE /\ openers' = [openers EXCEPT
                  ![t].max_attempts = @ - 1,
                  ![t].pc = IF err = "GIT_OK" THEN "ctor_lock" ELSE "reprobe"]
            /\ UNCHANGED repo_mutex

\* GitRepo(path): std::unique_lock lock{repo_mutex}, then git_repository_open_ext
LockCtor(t) ==
    /\ openers[t].pc = "ctor_lock"
    /\ repo_mutex.ctor = 0
    /\ repo_mutex' = [repo_mutex EXCEPT !.ctor = t]
    /\ openers' = [openers EXCEPT ![t].pc = "open"]

\* the constructor returns and, in InitAndOpen, so does the function
OpenDone(t) ==
    /\ openers[t].pc = "open"
    /\ repo_mutex' = [ctor |-> 0, init |-> IF repo_mutex.init = t THEN 0 ELSE repo_mutex.init]
    /\ openers' = [openers EXCEPT ![t] = NoOpener]

NextOpen ==
    \E t \in Threads :
        \/ \E op \in {"Open", "InitAndOpen"} : OpenStep(CallOpen(t, op))
        \/ OpenStep(LockInit(t))
        \/ \E found \in BOOLEAN : OpenStep(ProbeDone(t, found))
        \/ \E err \in GitErrors : OpenStep(InitAttempt(t, err))
        \/ OpenStep(LockCtor(t))
        \/ OpenStep(OpenDone(t))

SpecOpen == InitOpen /\ [][NextOpen]_vars

\* --------------------------- handles: open, move, assign and destroy

InitHandle ==
    /\ HandleIdle
    /\ CoreIdle
    /\ MemIdle
    /\ OpenIdle
    /\ ReaderIdle
    /\ ApiIdle

HandleStep(A) == A /\ UNCHANGED <<coreVars, memVars, openVars, readerVars, apiVars>>

\* GitRepo::Open(git_cas) with the caller's GitCAS; a failed wrap leaves no
\* repository and no handle
OpenFake(h) ==
    /\ ~handles[h].exists /\ extCas /\ opens < MaxOpens
    /\ \E ok \in BOOLEAN :
          IF ok
          THEN /\ handles' = [handles EXCEPT ![h] =
                     [exists |-> TRUE, git_cas_ |-> ExtCas, repo_ |-> opens + 1,
                      repo_cas |-> ExtCas, is_repo_fake_ |-> TRUE, opened_as |-> "Fake",
                      assigned |-> FALSE]]
               /\ opens' = opens + 1
          ELSE UNCHANGED <<handles, opens>>
    /\ UNCHANGED <<extCas, freed>>

\* GitRepo::Open(path): the constructor makes a GitCAS of its own; if
\* git_repository_open_ext fails there is no handle; if git_repository_odb
\* gives no ODB the constructor returns with repo_ set and git_cas_ null,
\* the local GitCAS dies, and Open hands the object out as repo_ is set
OpenPath(h) ==
    /\ ~handles[h].exists /\ opens < MaxOpens
    /\ \E outcome \in {"ok", "no repository", "no odb"} :
          IF outcome = "no repository" THEN UNCHANGED <<handles, opens>>
          ELSE /\ handles' = [handles EXCEPT ![h] =
                     [exists |-> TRUE,
                      git_cas_ |-> IF outcome = "ok" THEN opens + 1 ELSE 0,
                      repo_ |-> opens + 1, repo_cas |-> opens + 1,
                      is_repo_fake_ |-> FALSE,
                      opened_as |-> IF outcome = "ok" THEN "Real" ELSE "none",
                      assigned |-> FALSE]]
               /\ opens' = opens + 1
    /\ UNCHANGED <<extCas, freed>>

\* GitRepo(GitRepo&& other): the members are moved, other.git_cas_ is nulled
MoveConstruct(h, other) ==
    /\ ~handles[h].exists /\ handles[other].exists
    /\ handles' = [handles EXCEPT
          ![h] = handles[other],
          ![other] = [@ EXCEPT !.git_cas_ = 0, !.repo_ = 0, !.repo_cas = 0]]
    /\ UNCHANGED <<extCas, opens, freed>>

\* a move assignment that leaves the flag of the target as it was
MoveAssign_KeepFlag(h, other) ==
    /\ h # other /\ handles[h].exists /\ handles[other].exists
    /\ LET step1 == [handles EXCEPT ![h].git_cas_ = handles[other].git_cas_,
                                      ![other].git_cas_ = 0]
       IN  /\ freed' = freed \cup GuardedRepo_dtor(handles[h], step1, extCas)
           /\ handles' = [step1 EXCEPT
                 ![h].repo_ = handles[other].repo_,
                 ![h].repo_cas = handles[other].repo_cas,
                 ![h].assigned = TRUE,
                 ![other].repo_ = 0, ![other].repo_cas = 0]
    /\ UNCHANGED <<extCas, opens>>

\* operator=(GitRepo&& other): git_cas_ is assigned first, which lets go of
\* the GitCAS this held; then repo_, which lets go of the GuardedRepo this
\* held; then the flag
MoveAssign(h, other) ==
    /\ h # other /\ handles[h].exists /\ handles[other].exists
    /\ LET step1 == [handles EXCEPT ![h].git_cas_ = handles[other].git_cas_,
                                      ![other].git_cas_ = 0]
       IN  /\ freed' = freed \cup GuardedRepo_dtor(handles[h], step1, extCas)
           /\ handles' = [step1 EXCEPT
                 ![h].repo_ = handles[other].repo_,
                 ![h].repo_cas = handles[other].repo_cas,
                 ![h].is_repo_fake_ = handles[other].is_repo_fake_,
                 ![h].assigned = TRUE,
                 ![other].repo_ = 0, ![other].repo_cas = 0]
    /\ UNCHANGED <<extCas, opens>>

\* ~GitRepo: the members go in reverse order of their declaration, repo_
\* before git_cas_
Destroy_GitRepo(h) ==
    /\ handles[h].exists
    /\ freed' = freed \cup GuardedRepo_dtor(handles[h], handles, extCas)
    /\ handles' = [handles EXCEPT ![h] = NoHandle]
    /\ UNCHANGED <<extCas, opens>>

\* the caller lets go of its GitCASPtr
DropCas ==
    /\ extCas
    /\ extCas' = FALSE
    /\ UNCHANGED <<handles, opens, freed>>

NextHandle ==
    \/ \E h \in Slots : HandleStep(OpenFake(h))
    \/ \E h \in Slots : HandleStep(OpenPath(h))
    \/ \E h, other \in Slots : HandleStep(MoveConstruct(h, other))
    \/ \E h, other \in Slots : HandleStep(MoveAssign(h, other))
    \/ \E h \in Slots : HandleStep(Destroy_GitRepo(h))
    \/ HandleStep(DropCas)

SpecHandle == InitHandle /\ [][NextHandle]_vars

\* --------------------------- the blob reader: successive calls of Next

\* the id lists a reader is made for: digests of sizes unknown (0), small,
\* and larger than the transfer limit, under a hash that names the position
SizedBatches ==
    UNION {{[k \in 1..n |-> [hash |-> k, size_bytes |-> f[k]]] :
               f \in [1..n -> {0, 1, 3, kMaxBatchTransferSize + 1}]} : n \in 0..MaxSymlinks}

\* a CAS that holds every blob asked for
FullCas == [i \in 1..MaxSymlinks |-> "dir/file"]

\* BazelNetwork::ReadBlobs(ids)
InitReader ==
    /\ blobReader \in {NewBlobReader(ids) : ids \in SizedBatches}
    /\ readLog = <<>>
    /\ CoreIdle
    /\ MemIdle
    /\ OpenIdle
    /\ HandleIdle
    /\ ApiIdle

\* a call of BlobReader::Next
DoNext ==
    /\ Len(readLog) < Len(blobReader.ids) + MaxExtraCalls
    /\ LET n == Next_Blobs(FullCas, blobReader)
       IN  /\ blobReader' = n.reader
           /\ readLog' = Append(readLog, [k \in 1..Len(n.blobs) |-> n.blobs[k].digest.hash])
    /\ UNCHANGED <<coreVars, memVars, openVars, handleVars, apiVars>>

NextReader == DoNext

SpecReader == InitReader /\ [][NextReader]_vars

\* --------------------------------- retrieve to fds: calls with all inputs

RetrieveStep(A) == A /\ UNCHANGED <<coreVars, memVars, openVars, handleVars, readerVars, uploadRun, served>>

InitRetrieve ==
    /\ RetrieveIdle
    /\ UploadIdle
    /\ ServeIdle
    /\ CoreIdle
    /\ MemIdle
    /\ OpenIdle
    /\ HandleIdle
    /\ ReaderIdle

\* a call of CommonRetrieveToFds
DoRetrieveToFds ==
    /\ retrieved = <<>>
    /\ \E n \in 0..MaxArtifacts, m \in 0..MaxArtifacts :
      \E fdopen \in [1..n -> BOOLEAN], dump \in [1..n -> Outcomes] :
        \E fallback \in {[present |-> FALSE, out |-> <<>>]}
                          \cup {[present |-> TRUE, out |-> f] : f \in [1..n -> Outcomes]} :
          LET r == CommonRetrieveToFds([k \in 1..n |-> k], [k \in 1..m |-> k], fdopen, dump, fallback)
          IN  retrieved' = [artifacts |-> n, fds |-> m, fdopen |-> fdopen, dump |-> dump,
                            fallback |-> fallback, result |-> r.result, calls |-> r.calls]

NextRetrieve == RetrieveStep(DoRetrieveToFds)

SpecRetrieve == InitRetrieve /\ [][NextRetrieve]_vars

\* ------------------------------------- tree upload: runs on a remote CAS

UploadStep(A) == A /\ UNCHANGED <<coreVars, memVars, openVars, handleVars, readerVars, retrieved, served>>

InitUpload ==
    /\ UploadIdle
    /\ RetrieveIdle
    /\ ServeIdle
    /\ CoreIdle
    /\ MemIdle
    /\ OpenIdle
    /\ HandleIdle
    /\ ReaderIdle

\* a run of CommonUploadTreeNative
DoUploadTree ==
    /\ uploadRun = <<>>
    /\ \E kids \in BlobTrees, cas \in RemoteStates :
         \E r \in CommonUploadTreeNative(kids, cas) :
           uploadRun' = [kids |-> kids, start |-> cas, ok |-> r.ok, cas |-> r.cas, log |-> r.log]

NextUpload == UploadStep(DoUploadTree)

SpecUpload == InitUpload /\ [][NextUpload]_vars

\* ------------------------------------- execution service: calls of Execute

ServeStep(A) == A /\ UNCHANGED <<coreVars, memVars, openVars, handleVars, readerVars, retrieved, uploadRun>>

InitServe ==
    /\ ServeIdle
    /\ RetrieveIdle
    /\ UploadIdle
    /\ CoreIdle
    /\ MemIdle
    /\ OpenIdle
    /\ HandleIdle
    /\ ReaderIdle

\* a call of Execute
DoExecute ==
    /\ served = <<>>
    /\ \E env \in ExecuteEnvs :
         served' = [env |-> env, out |-> Execute(env)]

NextServe == ServeStep(DoExecute)

SpecServe == InitServe /\ [][NextServe]_vars

\* ================================================================== claims

\* the listing is valid: names are unique, and each raw id's nodes are all
\* trees or all non-trees (every type of ObjectTypes is a supported kind)
UniqueNames(E) == \A e, f \in E : e.name = f.name => e = f

Homogeneous(E) ==
    \A e, f \in E : e.id = f.id => (IsTreeObject(e.type) <=> IsTreeObject(f.type))

ValidEntrySet(E) == UniqueNames(E) /\ Homogeneous(E)

\* the on-disk ODB holds every object the entries refer to, with its type
DiskHolds(E) ==
    \A e \in E :
        diskOdb.types[e.id] = IF IsTreeObject(e.type) THEN "GIT_OBJECT_TREE"
                              ELSE "GIT_OBJECT_BLOB"

\* C1: round trip.  For a valid listing, CreateShallowTree succeeds for every
\* listing of the entries, and ReadTreeData on the returned bytes and id with
\* a checker that accepts everything returns a listing with exactly the same
\* (raw_id, name, type) triples.
C1_RoundTrip ==
    ValidEntrySet(entrySet) =>
        /\ \A s \in shallowOut : s.ok
        /\ \A r \in readOut : r.ok /\ Triples(r.entries) = entrySet

\* C1 witness: a valid listing with a tree named "a" and a non-tree entry
\* (so that Git's order differs from the plain order) was created and read back
C1_Witness ==
    /\ ValidEntrySet(entrySet)
    /\ \E e, f \in entrySet : e.type = "Tree" /\ e.name = <<97>> /\ f.type = "Executable"
    /\ \E r \in readOut : r.ok

C3_ListingGroupsUniform ==
    readRes.res.ok => ValidateEntries(readRes.res.entries)


\* the operations on commits, tags and refs, and the other operations
WriteClassOps == {"StageAndCommitAllAnonymous", "KeepTag", "KeepTree", "GetHeadCommit",
                  "FetchFromPath"}
OtherOps == {"GetSubtreeFromCommit", "GetSubtreeFromTree", "GetSubtreeFromPath",
             "CheckCommitExists", "CheckTreeExists", "CheckBlobExists", "TryReadBlob",
             "WriteBlob", "GetObjectByPathFromTree", "LocalFetchViaTmpRepo"}
CheckOps == {"CheckCommitExists", "CheckTreeExists", "CheckBlobExists"}
KindChecked(op) ==
    CASE op = "CheckCommitExists" -> "commit"
      [] op = "CheckTreeExists" -> "tree"
      [] OTHER -> "blob"

C5_FakeWriteClassFails ==
    (last.op \in WriteClassOps /\ last.fake) =>
        /\ ~last.ret.ok /\ ~last.ret.has
        /\ last.fatal
        /\ last.locked = "none"
        /\ ~last.changed

\* KeepTag on a fake handle for a target the ODB holds, with no library error
C5_Witness ==
    /\ last.op = "KeepTag" /\ last.fake /\ last.fault = "none"
    /\ HasAnyObj(last.arg)
    /\ ~last.ret.ok

\* C6 (as stated): each of the other operations, called on a fake handle,
\* fails: it returns no value (None, false or an error)
C6_FakeRejected ==
    (last.op \in OtherOps /\ last.fake) => ~last.ret.ok /\ ~last.ret.has

\* C6 (amended): none of the other operations rejects a fake handle: on a
\* fake handle and with no library error, WriteBlob stores the blob and
\* returns its id, the Check operations and TryReadBlob answer a well-formed
\* id by what the ODB holds, LocalFetchViaTmpRepo fetches, and the subtree and
\* path lookups return the entries of the commits and trees the ODB holds
C6_FakeAccepted ==
    (last.op \in OtherOps /\ last.fake /\ last.fault = "none") =>
        /\ last.op = "WriteBlob" =>
              last.ret = Some(BlobHash(last.arg)) /\ HasObj(BlobHash(last.arg), "blob")
        /\ (last.op \in CheckOps /\ last.arg >= 0) =>
              /\ last.ret.has
              /\ last.ret.val = 1 <=> HasObj(last.arg, KindChecked(last.op))
        /\ (last.op = "TryReadBlob" /\ last.arg >= 0) =>
              last.ret.ok /\ (last.ret.has <=> HasObj(last.arg, "blob"))
        /\ last.op = "LocalFetchViaTmpRepo" => last.ret.ok /\ SrcObjs \subseteq objs
        /\ (/\ last.op \in {"GetSubtreeFromCommit", "GetSubtreeFromPath"}
            /\ HasObj(last.arg, "commit") /\ HasObj(TreeOfCommit(last.arg), "tree")) =>
              /\ last.arg2 \in {".", "root"} => last.ret = Some(TreeOfCommit(last.arg))
              /\ last.arg2 \in {"dir", "root/dir"} =>
                    last.ret = Some(SubTreeOf(TreeOfCommit(last.arg)))
        /\ last.op \in {"GetSubtreeFromTree", "GetObjectByPathFromTree"} =>
              /\ last.arg2 = "." => last.ret.has /\ last.ret.val = last.arg
              /\ (last.arg2 = "dir" /\ IsRootTree(last.arg) /\ HasObj(last.arg, "tree")) =>
                    last.ret.has /\ last.ret.val = SubTreeOf(last.arg)

\* WriteBlob on a fake handle returned the id of the blob
C6_Witness == last.op = "WriteBlob" /\ last.fake /\ last.ret.has

\* C7: when the call before was a StageAndCommitAllAnonymous on a real handle
\* that returned c, and no library call fails, GetHeadCommit on the real
\* handle returns c and CheckCommitExists(c) returns true
C7_HeadIsCommit ==
    (last.after # 0 /\ last.fault = "none") =>
        /\ (last.op = "GetHeadCommit" /\ ~last.fake) => last.ret = Some(last.after)
        /\ (last.op = "CheckCommitExists" /\ last.arg = last.after) => last.ret = Some(1)

\* GetHeadCommit was called right after a commit was made
C7_Witness ==
    /\ last.op = "GetHeadCommit" /\ ~last.fake /\ last.fault = "none"
    /\ last.after # 0
    /\ written # {}

\* C8: every id that WriteBlob has returned names a blob of the ODB in every
\* later state, and CheckBlobExists of it, on either handle and with no
\* library error, returns true
C8_WrittenBlobsExist ==
    /\ \A b \in written : HasObj(b, "blob")
    /\ (last.op = "CheckBlobExists" /\ last.arg \in written /\ last.fault = "none") =>
          last.ret = Some(1)

\* CheckBlobExists on the fake handle found a blob written earlier, after
\* other objects had been added
C8_Witness ==
    /\ last.op = "CheckBlobExists" /\ last.fake /\ last.arg \in written
    /\ last.ret = Some(1)
    /\ head # 0

\* C9 (as stated): the Check operations return true iff the lookup succeeds,
\* false iff it reports NotFound, None otherwise, and the logger is called
\* with fatal = true exactly in the None case
C9_ThreeValuedLogged ==
    last.op \in CheckOps =>
        LET found == HasObj(last.arg, KindChecked(last.op))
            looked == last.arg >= 0 /\ last.fault = "none"
        IN  /\ last.ret = Some(1) <=> (looked /\ found)
            /\ last.ret = Some(0) <=> (looked /\ ~found)
            /\ last.ret = None <=> ~looked
            /\ last.fatal <=> last.ret = None

\* C9 (amended): as C9, but the logger is called with fatal = true in the None
\* case only when the id is malformed or the lookup failed; a None that comes
\* from a caught exception is not reported to the caller's logger
C9_ThreeValued ==
    last.op \in CheckOps =>
        LET found == HasObj(last.arg, KindChecked(last.op))
            looked == last.arg >= 0 /\ last.fault = "none"
            thrown == last.arg >= 0 /\ last.fault = "throw"
        IN  /\ last.ret = Some(1) <=> (looked /\ found)
            /\ last.ret = Some(0) <=> (looked /\ ~found)
            /\ last.ret = None <=> ~looked
            /\ last.fatal <=> (last.ret = None /\ ~thrown)

\* a lookup of an object the ODB holds failed: None, reported as fatal
C9_Witness ==
    /\ last.op \in CheckOps /\ last.fault = "lookup"
    /\ HasObj(last.arg, KindChecked(last.op))
    /\ last.ret = None /\ last.fatal

\* C10: TryReadBlob returns (true, None) exactly when the lookup reports
\* NotFound, (true, Some(data)) exactly when the blob is found and read, with
\* data its content, and (false, None) in every other case
C10_TryReadBlobPairs ==
    last.op = "TryReadBlob" =>
        LET found == HasObj(last.arg, "blob")
            looked == last.arg >= 0 /\ last.fault \notin {"throw", "lookup"}
        IN  /\ (last.ret.ok /\ ~last.ret.has) <=> (looked /\ ~found)
            /\ (last.ret.ok /\ last.ret.has) <=> (looked /\ found /\ last.fault = "none")
            /\ last.ret.has => last.ret.ok /\ BlobHash(last.ret.val) = last.arg

\* a blob written before was read
C10_Witness ==
    /\ last.op = "TryReadBlob" /\ last.ret.ok /\ last.ret.has
    /\ last.arg \in written

\* C11: GetSubtreeFromCommit returns the error NotFound exactly when the
\* lookup of the commit object fails (a well-formed id that names no commit,
\* or a failing lookup); every other failure (malformed id, the commit's tree
\* not obtained, subdir not in the tree, exception) returns Fatal; on
\* success the result is the commit's root tree for "." and else the id of
\* the entry at subdir
C11_NotFoundIffLookupFails ==
    last.op = "GetSubtreeFromCommit" =>
        LET reached == last.arg >= 0 /\ last.fault # "throw"
            lookupFails == reached /\ (~HasObj(last.arg, "commit") \/ last.fault = "lookup")
            tree == TreeOfCommit(last.arg)
            succeeds == /\ reached /\ ~lookupFails /\ last.fault = "none"
                        /\ HasObj(tree, "tree")
                        /\ last.arg2 \in {".", "dir"}
        IN  /\ last.ret.info = "NotFound" <=> lookupFails
            /\ last.ret.info = "Fatal" <=> (~lookupFails /\ ~succeeds)
            /\ last.ret.ok <=> succeeds
            /\ last.ret.ok => /\ last.ret.has
                              /\ last.arg2 = "." => last.ret.val = tree
                              /\ last.arg2 = "dir" => last.ret.val = SubTreeOf(tree)

\* the all-zero id, in a repository that holds commits, gave NotFound
C11_Witness ==
    /\ last.op = "GetSubtreeFromCommit" /\ last.arg = 0 /\ last.fault = "none"
    /\ last.ret.info = "NotFound"
    /\ head # 0

\* C12: GetSubtreeFromTree(t, ".") returns t itself, takes no ODB lock, calls
\* no logger and changes nothing, whether or not the ODB holds t and whatever
\* library call would fail
C12_DotReturnsInput ==
    (last.op = "GetSubtreeFromTree" /\ last.arg2 = ".") =>
        /\ last.ret = Some(last.arg)
        /\ last.locked = "none"
        /\ ~last.fatal
        /\ ~last.changed

\* the call was made with the id of a tree that the ODB does not hold
C12_Witness ==
    /\ last.op = "GetSubtreeFromTree" /\ last.arg2 = "."
    /\ IsRootTree(last.arg) /\ ~HasObj(last.arg, "tree")
    /\ last.ret = Some(last.arg)

\* the modes ReadTree accepts, and what the records of the stored tree say
AcceptedModes == {GIT_FILEMODE_BLOB, GIT_FILEMODE_BLOB_EXECUTABLE, GIT_FILEMODE_LINK,
                  GIT_FILEMODE_TREE}
KindOfMode(mode) ==
    CASE mode = GIT_FILEMODE_BLOB -> "File"
      [] mode = GIT_FILEMODE_BLOB_EXECUTABLE -> "Executable"
      [] mode = GIT_FILEMODE_LINK -> "Symlink"
      [] OTHER -> "Tree"
RecordsOf(modes) == {i \in 1..Len(treeData) : treeData[i].mode \in modes}
TriplesOfRecords(R) ==
    {[id |-> treeData[i].id, name |-> treeData[i].name, type |-> KindOfMode(treeData[i].mode)] :
        i \in R}
RECURSIVE NodeCount(_)
NodeCount(L) == IF L = <<>> THEN 0 ELSE Len(Head(L).nodes) + NodeCount(Tail(L))

\* C13: a call of ReadTree with ignore_special = false that returns (a debug
\* build ends the program instead when the audit of the listing fails)
\* returns None if a record of the tree has a mode outside the accepted
\* ones; otherwise check_symlinks was called exactly once, on a batch that
\* holds each raw id with a symlink record exactly once and nothing else;
\* the call returns None if that check is false and the listing of all
\* records if it is true
C13_SymlinksCheckedOnce ==
    (readRes.op # "none" /\ ~readRes.ignore_special /\ ~readRes.res.aborted) =>
        LET res == readRes.res
            symIds == {treeData[i].id : i \in RecordsOf({GIT_FILEMODE_LINK})}
        IN  IF RecordsOf(AcceptedModes) # DOMAIN treeData
            THEN ~res.ok /\ res.batches = <<>>
            ELSE /\ Len(res.batches) = 1
                 /\ {res.batches[1][k] : k \in 1..Len(res.batches[1])} = symIds
                 /\ Len(res.batches[1]) = Cardinality(symIds)
                 /\ res.ok <=> symIds \cap readRes.upward = {}
                 /\ res.ok => /\ Triples(res.entries) = TriplesOfRecords(DOMAIN treeData)
                              /\ NodeCount(res.entries) = Len(treeData)

\* a tree with two symlink records of one id was read: one digest was checked
C13_Witness ==
    /\ readRes.op = "ReadTree" /\ ~readRes.ignore_special /\ readRes.res.ok
    /\ Len(treeData) = 2
    /\ treeData[1].mode = GIT_FILEMODE_LINK /\ treeData[2].mode = GIT_FILEMODE_LINK
    /\ treeData[1].id = treeData[2].id /\ treeData[1].name # treeData[2].name
    /\ Len(readRes.res.batches[1]) = 1

\* C14 (as stated): a call of ReadTree with ignore_special = true that
\* returns succeeds whatever the modes are, and its listing holds exactly the
\* records whose mode is 100644, 100755, 120000 or 40000
C14_AcceptedKept ==
    (readRes.op = "ReadTree" /\ readRes.ignore_special /\ ~readRes.res.aborted) =>
        /\ readRes.res.ok
        /\ Triples(readRes.res.entries) = TriplesOfRecords(RecordsOf(AcceptedModes))
        /\ NodeCount(readRes.res.entries) = Cardinality(RecordsOf(AcceptedModes))

\* C14 (amended): a call of ReadTree with ignore_special = true that returns
\* succeeds whatever the modes are, and its listing holds exactly the records
\* whose mode is 100644, 100755 or 40000: symlink records (120000) are
\* skipped like the records of every other mode, and check_symlinks is not
\* called
C14_NonSpecialKept ==
    (readRes.op = "ReadTree" /\ readRes.ignore_special /\ ~readRes.res.aborted) =>
        LET kept == RecordsOf({GIT_FILEMODE_BLOB, GIT_FILEMODE_BLOB_EXECUTABLE,
                               GIT_FILEMODE_TREE})
        IN  /\ readRes.res.ok
            /\ Triples(readRes.res.entries) = TriplesOfRecords(kept)
            /\ NodeCount(readRes.res.entries) = Cardinality(kept)
            /\ readRes.res.batches = <<>>

\* a tree of a file and a symlink was read: the listing holds the file only
C14_Witness ==
    /\ readRes.op = "ReadTree" /\ readRes.ignore_special /\ readRes.res.ok
    /\ Len(treeData) = 2
    /\ treeData[1].mode = GIT_FILEMODE_BLOB /\ treeData[2].mode = GIT_FILEMODE_LINK
    /\ NodeCount(readRes.res.entries) = 1

\* C15: the symlink check that ReadGitTree passes to ReadTreeData returns
\* true exactly when the CAS gave the target of every digest of the batch and
\* every target is non-upwards
C15_TrueIffAllNonUpwards ==
    checkRes.done =>
        (checkRes.val <=>
            \A k \in 1..Len(checkIds) :
                /\ casBlobs[checkIds[k].hash] # "absent"
                /\ PathIsNonUpwards(casBlobs[checkIds[k].hash]))

\* C16: a successful LocalFetchViaTmpRepo leaves HEAD and the tags of this
\* repository as they were and the tip of the fetched branch in this ODB,
\* and a CheckCommitExists of that tip made next, whose lookup does not
\* fail, returns true
C16_FetchAddsObjectsOnly ==
    /\ (last.op = "LocalFetchViaTmpRepo" /\ last.ret.ok) =>
          ~last.refsChanged /\ HasObj(SrcTip, "commit")
    /\ (/\ last.prevOp = "LocalFetchViaTmpRepo" /\ last.prevOk
        /\ last.op = "CheckCommitExists" /\ last.arg = SrcTip /\ last.fault = "none") =>
          last.ret = Some(1)

\* the tip was looked for right after a fetch into a repository with a tag
C16_Witness ==
    /\ last.prevOp = "LocalFetchViaTmpRepo" /\ last.prevOk
    /\ last.op = "CheckCommitExists" /\ last.arg = SrcTip /\ last.ret = Some(1)
    /\ tags # {} /\ head # 0

\* the threads inside a locked block, and those inside a block of a given kind
InBlock(t) == threads[t].pc \in {"wrap", "write", "read", "lookup", "free"}
Writing(t) == threads[t].pc = "write"
Reading(t) == threads[t].pc \in {"read", "lookup"}

\* C17 as stated: writes hold the ODB lock exclusively, so on one ODB no two
\* writes, and no write and read, are inside their locked blocks at one time.
\* Refuted: the writes take std::shared_lock ("share the odb lock")
C17_WritesExclusive ==
    \A t, u \in Threads :
        (t # u /\ Writing(t)) => ~Writing(u) /\ ~Reading(u)

\* C17 amended: a write holds the ODB lock in shared mode while it writes: no
\* thread owns the lock exclusively then, so no wrap and no free of a
\* repository overlaps with it, while other writes and reads may
C17_WritesShared ==
    \A t \in Threads :
        Writing(t) =>
            /\ t \in mutex_.shared /\ mutex_.unique = 0
            /\ \A u \in Threads : threads[u].pc \notin {"wrap", "free"}

\* two writes and a read inside their blocks at once, all sharing the lock
C17_Witness ==
    \E t, u, v \in Threads :
        /\ t # u /\ Writing(t) /\ Writing(u) /\ threads[t].op # threads[u].op
        /\ Reading(v)
        /\ {t, u, v} \subseteq mutex_.shared

C19_WalkUnderLock ==
    \A t \in Threads :
        (threads[t].op = "ReadTree" /\ threads[t].pc \in {"lookup", "walk"}) =>
            t \in mutex_.shared

\* C19 amended: ReadTree holds the shared lock during the tree lookup only;
\* the walk over the looked-up tree runs with the lock released
C19_LookupUnderLock ==
    \A t \in Threads :
        /\ threads[t].pc = "lookup" => t \in mutex_.shared /\ mutex_.unique = 0
        /\ threads[t].pc = "walk" => t \notin mutex_.shared /\ mutex_.unique # t

\* a thread walks the tree it looked up while another thread owns the lock
\* exclusively and frees its repository
C19_Witness ==
    \E t, u \in Threads :
        /\ threads[t].op = "ReadTree" /\ threads[t].pc = "walk"
        /\ threads[u].pc = "free" /\ mutex_.unique = u

\* C20: the retry loop of KeepTag, KeepTree and InitAndOpen makes at most
\* kGitLockNumTries attempts per call; every attempt but the last of a call
\* ended with GIT_ELOCKED and was followed by a look that found the tag or
\* repository still absent; a look that finds it ends the call with success;
\* an attempt that fails with another error ends the call with failure
C20_RetryDiscipline ==
    LET n == Len(retry.errs)
        k == Len(retry.rechecks)
    IN  /\ n <= kGitLockNumTries
        /\ retry.calls > 0 => n + retry.max_attempts \in {0, kGitLockNumTries}
        /\ \A i \in 1..(n - 1) :
              /\ retry.errs[i] = "GIT_ELOCKED"
              /\ i <= k /\ ~retry.rechecks[i]
        /\ k <= n /\ \A i \in 1..k : retry.errs[i] = "GIT_ELOCKED"
        /\ (k > 0 /\ retry.rechecks[k]) => retry.pc = "done" /\ retry.ret /\ k = n
        /\ (n > 0 /\ retry.errs[n] = "GIT_OK") => retry.pc = "done" /\ retry.ret
        /\ (n > 0 /\ retry.errs[n] = "GIT_ERROR") =>
              retry.pc = "done" /\ ~retry.ret /\ retry.fatal /\ k = n - 1
        /\ (retry.pc = "done" /\ ~retry.ret /\ n > 0) =>
              /\ retry.fatal
              /\ retry.errs[n] = "GIT_ERROR" \/ (n = kGitLockNumTries /\ k = n)

\* a call met the lock, found the tag or repository still absent, tried
\* again and stopped at once on an error that is not the lock
C20_Witness ==
    /\ retry.pc = "done" /\ ~retry.ret
    /\ Len(retry.errs) >= 2
    /\ retry.errs[1] = "GIT_ELOCKED" /\ retry.errs[Len(retry.errs)] = "GIT_ERROR"
    /\ retry.rechecks[1] = FALSE

\* the listing group of id in the backend's entries, <<>> if there is none
\* (or no listing at all), and whether id has a group
MemGroupOf(b, id) ==
    IF b.hasEntries /\ \E i \in 1..Len(b.entries) : b.entries[i].id = id
    THEN (b.entries[CHOOSE i \in 1..Len(b.entries) : b.entries[i].id = id]).nodes
    ELSE <<>>
MemHasGroup(b, id) == b.hasEntries /\ \E i \in 1..Len(b.entries) : b.entries[i].id = id
MemStored(b, id) == {t.data : t \in {u \in b.trees : u.id = id}}

\* C23: read_header(id) reports Tree with the length of the stored bytes if
\* id is in trees; else, if id has a non-empty listing, Tree when the first
\* node is a tree and Blob otherwise, with length 0; else NotFound
C23_ReadHeaderCases ==
    memLast.op = "read_header" =>
        LET b == memLast.before
            id == memLast.id
            g == MemGroupOf(b, id)
        IN  IF MemStored(b, id) # {}
            THEN /\ memLast.rc = "GIT_OK" /\ memLast.type = "GIT_OBJECT_TREE"
                 /\ \E d \in MemStored(b, id) : memLast.out = <<Len(d)>>
            ELSE IF g # <<>>
                 THEN /\ memLast.rc = "GIT_OK" /\ memLast.out = <<0>>
                      /\ memLast.type = IF g[1].type = "Tree" THEN "GIT_OBJECT_TREE"
                                                               ELSE "GIT_OBJECT_BLOB"
                 ELSE memLast.rc = "GIT_ENOTFOUND"

\* the header of an id whose group begins with a tree and holds a file too
C23_Witness ==
    /\ memLast.op = "read_header" /\ memLast.rc = "GIT_OK"
    /\ memLast.type = "GIT_OBJECT_TREE" /\ memLast.out = <<0>>
    /\ \E j \in 1..Len(MemGroupOf(memLast.before, memLast.id)) :
          MemGroupOf(memLast.before, memLast.id)[j].type = "File"
    /\ memBackend.trees # {}

\* C24: write(id, bytes, kind) succeeds iff kind is Tree; after a successful
\* write the bytes stored under id are the written bytes, and a read of id
\* returns them; a write of another kind returns an error and leaves the
\* trees and the entries unchanged
C24_WriteStoresTrees ==
    /\ memLast.op = "write" =>
          /\ memLast.rc = "GIT_OK" <=> memLast.type = "GIT_OBJECT_TREE"
          /\ memLast.rc = "GIT_OK" =>
                /\ MemStored(memBackend, memLast.id) = {memLast.data}
                /\ backend_read(memBackend, memLast.id).rc = "GIT_OK"
                /\ backend_read(memBackend, memLast.id).data = memLast.data
                /\ memBackend.entries = memLast.before.entries
          /\ memLast.rc # "GIT_OK" => memLast.rc = "GIT_ERROR" /\ memBackend = memLast.before
    /\ \A t \in memBackend.trees : t.id = TreeHash(t.data)

\* a tree was written to a backend that held another tree already
C24_Witness ==
    /\ memLast.op = "write" /\ memLast.rc = "GIT_OK" /\ memLast.data # <<>>
    /\ memLast.before.trees # {}
    /\ memLast.before.trees # memBackend.trees
    /\ memBackend.hasEntries

\* C26 as stated: whenever exists(id) answers true, read_header(id) succeeds.
\* Refuted by an id whose listing in entries is empty
C26_ExistsHasHeader ==
    \A id \in MemIds :
        backend_exists(memBackend, id) => backend_read_header(memBackend, id).rc = "GIT_OK"

\* C26 amended: exists(id) is true iff id is in trees or has a group in
\* entries; read_header(id) then succeeds unless id is not in trees and its
\* group is empty, in which case it answers NotFound
C26_ExistsVersusHeader ==
    \A id \in MemIds :
        LET inTrees == MemStored(memBackend, id) # {}
            h == backend_read_header(memBackend, id).rc
        IN  /\ backend_exists(memBackend, id) <=> (inTrees \/ MemHasGroup(memBackend, id))
            /\ h = "GIT_OK" <=> (inTrees \/ MemGroupOf(memBackend, id) # <<>>)
            /\ h = "GIT_OK" => backend_exists(memBackend, id)
            /\ h # "GIT_OK" => h = "GIT_ENOTFOUND"

\* exists was asked about an id with an empty group and answered true, while
\* another id has a header
C26_Witness ==
    /\ memLast.op = "exists" /\ memLast.rc = "1"
    /\ MemHasGroup(memBackend, memLast.id) /\ MemGroupOf(memBackend, memLast.id) = <<>>
    /\ backend_read_header(memBackend, memLast.id).rc = "GIT_ENOTFOUND"
    /\ \E id \in MemIds : backend_read_header(memBackend, id).rc = "GIT_OK"

\* C21: at no time are two threads inside a repository open or init path:
\* the open of GitRepo(path), and the probes and init attempts of InitAndOpen
C21_OpenPathsSerialised ==
    \A t, u \in Threads :
        (/\ t # u
         /\ openers[t].pc \in {"probe", "init", "reprobe", "open"}
         /\ openers[u].pc \in {"probe", "init", "reprobe", "open"}) => FALSE

\* C25: whenever a GuardedRepo with a repository is destroyed, the GitCAS
\* that owns the mutex it locks is still alive
C25_MutexOutlivesRepo == \A f \in freed : f.cas_alive

\* C22 as stated: a handle opened as Real or as Fake keeps that mode through
\* every operation on it, move construction and move assignment included
C22_ModeConstant ==
    \A h \in Slots :
        (handles[h].exists /\ handles[h].opened_as # "none") =>
            (handles[h].is_repo_fake_ <=> handles[h].opened_as = "Fake")

\* C22 amended: the mode of a handle follows what it holds: a handle that
\* holds an ODB is fake iff the ODB is the caller's GitCAS; a handle that was
\* never the target of a move assignment keeps the mode it was opened with;
\* move assignment gives the target the mode of the source
C22_ModeFollowsSource ==
    \A h \in Slots :
        /\ (handles[h].exists /\ handles[h].git_cas_ # 0) =>
              (handles[h].is_repo_fake_ <=> handles[h].git_cas_ = ExtCas)
        /\ (handles[h].exists /\ handles[h].opened_as # "none" /\ ~handles[h].assigned) =>
              (handles[h].is_repo_fake_ <=> handles[h].opened_as = "Fake")

\* a handle opened as Real took over a fake handle by move assignment
C22_Witness ==
    \E h \in Slots :
        /\ handles[h].exists /\ handles[h].opened_as = "Real" /\ handles[h].assigned
        /\ handles[h].is_repo_fake_ /\ handles[h].git_cas_ = ExtCas

\* the hashes requested by the first n calls, in order
RECURSIVE Requested(_)
Requested(n) == IF n = 0 THEN <<>> ELSE Requested(n - 1) \o readLog[n]

\* C27: over successive calls of Next the requests are contiguous ranges that
\* partition the id list in order; every call made before the ids are used
\* up requests at least one id; after at most |ids| calls every further call
\* returns an empty vector
C27_RangesPartitionIds ==
    LET ids == blobReader.ids
        all == Requested(Len(readLog))
    IN  /\ Len(all) <= Len(ids)
        /\ \A k \in 1..Len(all) : all[k] = ids[k].hash
        /\ \A i \in 1..Len(readLog) :
              /\ Len(Requested(i - 1)) < Len(ids) => readLog[i] # <<>>
              /\ i > Len(ids) => readLog[i] = <<>>
        /\ Len(readLog) >= Len(ids) => Len(all) = Len(ids)
        /\ blobReader.begin_ = blobReader.current_ /\ blobReader.begin_ = Len(all) + 1

\* a list of three ids was read as one range of two and one single id, and
\* a further call returned nothing
C27_Witness ==
    /\ Len(blobReader.ids) = 3 /\ Len(readLog) >= 3
    /\ \E i, j \in 1..Len(readLog) : Len(readLog[i]) = 2 /\ Len(readLog[j]) = 1
    /\ readLog[Len(readLog)] = <<>>

\* C28: CommonRetrieveToFds returns true only if for every pair either
\* dump_to_stream returned true or the fallback was called and returned true;
\* when a dump fails and no fallback is given the result is false
C28_TrueOnlyIfAllWritten ==
    (retrieved # <<>> /\ retrieved.result) =>
        /\ Len(retrieved.calls) = retrieved.artifacts
        /\ \A i \in 1..retrieved.artifacts :
              \/ retrieved.calls[i].dump = "true"
              \/ retrieved.calls[i].fallback = "true"

\* a remote CAS in which every tree present has its direct entries present
Closed(kids, cas) == \A t \in TreeDigests \cap cas : kids[t] \subseteq cas

\* C29: a tree blob is passed to Upload only when every blob it refers to
\* is in the remote CAS, and a remote CAS that starts closed is closed after
\* every Upload call of the run, whether the run succeeds or aborts
C29_ContentFirst ==
    uploadRun # <<>> =>
        \A i \in 1..Len(uploadRun.log) :
            LET call == uploadRun.log[i]
            IN  /\ \A t \in call.container \cap TreeDigests : uploadRun.kids[t] \subseteq call.before
                /\ Closed(uploadRun.kids, uploadRun.start) => Closed(uploadRun.kids, call.after)

\* a run on a closed remote CAS that uploaded a tree whose content was
\* missing at the start, and aborted after at least two Upload calls
C29_Witness ==
    /\ uploadRun # <<>>
    /\ Closed(uploadRun.kids, uploadRun.start)
    /\ ~uploadRun.ok
    /\ Len(uploadRun.log) >= 2
    /\ \E i \in 1..Len(uploadRun.log) :
          \E t \in uploadRun.log[i].container \cap TreeDigests :
              /\ t \in uploadRun.log[i].after
              /\ uploadRun.kids[t] \ uploadRun.start # {}

\* C30: if AddOutputPaths fails, Execute returns a status that is not OK
\* (INTERNAL), stores no action result in the action cache and writes no
\* response to the client
C30_OutputPathsFailureReported ==
    (served # <<>> /\ served.out.executed /\ ~served.env.output_paths) =>
        /\ served.out.status = "INTERNAL"
        /\ ~served.out.stored
        /\ ~served.out.written

====
